---- MODULE Spec2Model ----
(***************************************************************************)
(* Model of the money-manager backend's report subsystem                   *)
(* (src/routes/reportsRoutes.js): the four aggregators, the three format   *)
(* generators at section level, and the four POST routes.                  *)
(*                                                                         *)
(* JavaScript values are records [t, n, s]: t is the type tag, n the       *)
(* number (integers only), s the string as a sequence of one-character     *)
(* strings, so that regular-expression tests, key ordering, date parsing   *)
(* and number formatting are computed and not assumed.                     *)
(*                                                                         *)
(* A Date is [day, ms]: days since 1970-01-01 UTC and the millisecond of   *)
(* that UTC day.  tz is the server's offset from UTC in minutes (local =   *)
(* UTC + tz), which is what separates new Date("YYYY-MM-DD") (UTC) from    *)
(* new Date(y, m, d) and setHours (local).                                 *)
(***************************************************************************)
EXTENDS Integers, Sequences, FiniteSets, TLC

VARIABLES
    tz,            \* server time zone, minutes east of UTC
    transactions,  \* the Transaction collection, in insertion order
    budgets,       \* the Budget collection
    accounts,      \* the Account collection
    reminders,     \* the BillReminder collection
    req,           \* the request being handled: [route, body]
    pc,            \* position of the route handler
    reportData,    \* what the aggregator returned to the handler
    res,           \* the HTTP response object
    queries,       \* data-source queries issued for this request, in order
    rendered,      \* format generators invoked for this request, in order
    pdf,           \* the PDF document being drawn: [y, pages, ended]
    inflight,      \* requests of the account, session and transaction routes: how
                   \* many were sent, and where each connection's handler stands
    sessions,      \* the Session collection
    users,         \* the User collection, by user id
    notifications, \* the Notification collection, in insertion order
    now            \* the server's clock

authVars == <<sessions, users, notifications, now>>

reportVars == <<pdf, tz, budgets, reminders, req, pc, reportData, res, queries, rendered>>

vars ==
    <<authVars, inflight, pdf, tz, transactions, budgets, accounts, reminders, req, pc, reportData, res, queries,
      rendered>>

(***************************************************************************)
(* JavaScript values                                                       *)
(***************************************************************************)
Undefined == [t |-> "undefined", n |-> 0, s |-> <<>>]
Null      == [t |-> "null", n |-> 0, s |-> <<>>]
Num(k)    == [t |-> "number", n |-> k, s |-> <<>>]
Str(cs)   == [t |-> "string", n |-> 0, s |-> cs]

\* ToBoolean: undefined, null, 0 and "" are falsy.
Truthy(v) ==
    CASE v.t = "undefined" -> FALSE
      [] v.t = "null"      -> FALSE
      [] v.t = "number"    -> v.n # 0
      [] OTHER             -> v.s # <<>>

Digits == <<"0", "1", "2", "3", "4", "5", "6", "7", "8", "9">>

IsDigit(c) == \E i \in 1..10 : Digits[i] = c

DigitVal(c) == (CHOOSE i \in 1..10 : Digits[i] = c) - 1

RECURSIVE NatToStr(_)
NatToStr(k) ==
    IF k < 10 THEN <<Digits[k + 1]>>
    ELSE NatToStr(k \div 10) \o <<Digits[(k % 10) + 1]>>

RECURSIVE StrToNat(_)
StrToNat(cs) ==
    IF cs = <<>> THEN 0
    ELSE 10 * StrToNat(SubSeq(cs, 1, Len(cs) - 1)) + DigitVal(cs[Len(cs)])

\* ToString of a value, as the implicit conversions (regex test, property key,
\* string concatenation) apply it.
ToStr(v) ==
    CASE v.t = "undefined" -> <<"u", "n", "d", "e", "f", "i", "n", "e", "d">>
      [] v.t = "null"      -> <<"n", "u", "l", "l">>
      [] v.t = "number"    -> IF v.n < 0 THEN <<"-">> \o NatToStr(-v.n) ELSE NatToStr(v.n)
      [] OTHER             -> v.s

UpperChars == <<"A", "B", "C", "D", "E", "F", "G", "H", "I", "J", "K", "L", "M",
                "N", "O", "P", "Q", "R", "S", "T", "U", "V", "W", "X", "Y", "Z">>
LowerChars == <<"a", "b", "c", "d", "e", "f", "g", "h", "i", "j", "k", "l", "m",
                "n", "o", "p", "q", "r", "s", "t", "u", "v", "w", "x", "y", "z">>

ToLowerChar(c) ==
    IF \E i \in 1..26 : UpperChars[i] = c
    THEN LowerChars[CHOOSE i \in 1..26 : UpperChars[i] = c]
    ELSE c

ToLower(cs) == [i \in 1..Len(cs) |-> ToLowerChar(cs[i])]

Contains(hay, needle) ==
    \E i \in 0..(Len(hay) - Len(needle)) : SubSeq(hay, i + 1, i + Len(needle)) = needle

\* /income/i.test(x) and /expense/i.test(x): a case-insensitive substring test
\* of ToString(x).
TestIncome(v)  == Contains(ToLower(ToStr(v)), <<"i", "n", "c", "o", "m", "e">>)
TestExpense(v) == Contains(ToLower(ToStr(v)), <<"e", "x", "p", "e", "n", "s", "e">>)

(***************************************************************************)
(* Plain objects used as maps.  An object is the sequence of its own       *)
(* properties [k, v] in creation order; enumeration (Object.entries,       *)
(* Object.keys) lists array-index keys first, in ascending numeric order,  *)
(* and then the other keys in creation order.                              *)
(***************************************************************************)
EmptyObject == <<>>

HasKey(obj, k) == \E i \in 1..Len(obj) : obj[i].k = k

GetProp(obj, k) == obj[CHOOSE i \in 1..Len(obj) : obj[i].k = k].v

SetProp(obj, k, val) ==
    IF HasKey(obj, k)
    THEN [i \in 1..Len(obj) |-> IF obj[i].k = k THEN [k |-> k, v |-> val] ELSE obj[i]]
    ELSE Append(obj, [k |-> k, v |-> val])

\* A canonical numeric string of an integer below 2^32 - 1 is an array index.
IsArrayIndex(k) ==
    /\ Len(k) >= 1
    /\ Len(k) <= 9
    /\ \A i \in 1..Len(k) : IsDigit(k[i])
    /\ (Len(k) > 1 => k[1] # "0")

RECURSIVE SelectEntries(_, _)
SelectEntries(obj, wantIndex) ==
    IF obj = <<>> THEN <<>>
    ELSE IF IsArrayIndex(Head(obj).k) = wantIndex
         THEN <<Head(obj)>> \o SelectEntries(Tail(obj), wantIndex)
         ELSE SelectEntries(Tail(obj), wantIndex)

RECURSIVE InsertByIndex(_, _)
InsertByIndex(sorted, e) ==
    IF sorted = <<>> THEN <<e>>
    ELSE IF StrToNat(e.k) < StrToNat(Head(sorted).k)
         THEN <<e>> \o sorted
         ELSE <<Head(sorted)>> \o InsertByIndex(Tail(sorted), e)

RECURSIVE SortByIndex(_)
SortByIndex(es) ==
    IF es = <<>> THEN <<>>
    ELSE InsertByIndex(SortByIndex(SubSeq(es, 1, Len(es) - 1)), es[Len(es)])

ObjectEntries(obj) ==
    SortByIndex(SelectEntries(obj, TRUE)) \o SelectEntries(obj, FALSE)

RECURSIVE ObjectFromEntries(_)
ObjectFromEntries(es) ==
    IF es = <<>> THEN EmptyObject
    ELSE SetProp(ObjectFromEntries(SubSeq(es, 1, Len(es) - 1)), es[Len(es)].k, es[Len(es)].v)

\* entries.sort((a, b) => b[1] - a[1]): a stable sort, descending by value.
RECURSIVE InsertDescending(_, _)
InsertDescending(sorted, e) ==
    IF sorted = <<>> THEN <<e>>
    ELSE IF e.v > Head(sorted).v
         THEN <<e>> \o sorted
         ELSE <<Head(sorted)>> \o InsertDescending(Tail(sorted), e)

RECURSIVE SortDescending(_)
SortDescending(es) ==
    IF es = <<>> THEN <<>>
    ELSE InsertDescending(SortDescending(SubSeq(es, 1, Len(es) - 1)), es[Len(es)])

(***************************************************************************)
(* Dates.  Day numbers follow ECMAScript's DayFromYear and MakeDay; a time *)
(* value is kept as [day, ms] because milliseconds since 1970 do not fit   *)
(* TLC's 32-bit integers.                                                  *)
(***************************************************************************)
MsPerMinute == 60 * 1000
MsPerDay    == 24 * 60 * MsPerMinute

DayFromYear(y) ==
    365 * (y - 1970) + ((y - 1969) \div 4) - ((y - 1901) \div 100) + ((y - 1601) \div 400)

IsLeapYear(y) == (y % 4 = 0) /\ ((y % 100 # 0) \/ (y % 400 = 0))

\* Days in month mn (0 = January) of year y.
DaysInMonthIndex(y, mn) ==
    IF mn = 1 THEN (IF IsLeapYear(y) THEN 29 ELSE 28)
    ELSE IF mn \in {3, 5, 8, 10} THEN 30 ELSE 31

RECURSIVE DaysBeforeMonth(_, _)
DaysBeforeMonth(y, mn) ==
    IF mn = 0 THEN 0 ELSE DaysBeforeMonth(y, mn - 1) + DaysInMonthIndex(y, mn - 1)

\* MakeDay(year, month, date): month is 0-based and may lie outside 0..11,
\* date may lie outside the month (date 0 is the last day of the month before).
MakeDay(year, month, date) ==
    LET ym == year + (month \div 12)
        mn == month % 12
    IN  DayFromYear(ym) + DaysBeforeMonth(ym, mn) + date - 1

\* A time value from a day number and a millisecond count that may have left
\* the day.
MakeDate(day, ms) == [day |-> day + (ms \div MsPerDay), ms |-> ms % MsPerDay]

LocalTime(t, zone) == MakeDate(t.day, t.ms + zone * MsPerMinute)
UTC(t, zone)       == MakeDate(t.day, t.ms - zone * MsPerMinute)

\* new Date(year, monthIndex, date): midnight of that day in local time.
NewDateLocal(year, monthIndex, date, zone) ==
    UTC([day |-> MakeDay(year, monthIndex, date), ms |-> 0], zone)

\* new Date(year, monthIndex, date, h, m, s, ms): that local time.
NewDateLocalAt(year, monthIndex, date, msOfDay, zone) ==
    UTC([day |-> MakeDay(year, monthIndex, date), ms |-> msOfDay], zone)

\* new Date("YYYY-MM-DD"): a date-only ISO string is parsed as midnight UTC.
DateParse(cs) ==
    [day |-> MakeDay(StrToNat(SubSeq(cs, 1, 4)), StrToNat(SubSeq(cs, 6, 7)) - 1,
                     StrToNat(SubSeq(cs, 9, 10))),
     ms  |-> 0]

\* d.setHours(h, m, s, ms): replaces the time within d's local day.
SetHours(t, msOfDay, zone) ==
    UTC([day |-> LocalTime(t, zone).day, ms |-> msOfDay], zone)

StartOfDayMs == 0
EndOfDayMs   == ((23 * 60 + 59) * 60 + 59) * 1000 + 999

DateLE(a, b) == a.day < b.day \/ (a.day = b.day /\ a.ms <= b.ms)
DateLT(a, b) == a.day < b.day \/ (a.day = b.day /\ a.ms < b.ms)

(***************************************************************************)
(* The data source: Transaction.find / Budget.findOne / Budget.find        *)
(***************************************************************************)
\* A match condition { userId, date: { $gte, $lte } } with either bound optional.
Cond(userId, hasGte, gte, hasLte, lte) ==
    [userId |-> userId, hasGte |-> hasGte, gte |-> gte, hasLte |-> hasLte, lte |-> lte]

Matches(tx, cond) ==
    /\ tx.userId = cond.userId
    /\ (cond.hasGte => DateLE(cond.gte, tx.date))
    /\ (cond.hasLte => DateLE(tx.date, cond.lte))

RECURSIVE Find(_, _)
Find(coll, cond) ==
    IF coll = <<>> THEN <<>>
    ELSE IF Matches(Head(coll), cond)
         THEN <<Head(coll)>> \o Find(Tail(coll), cond)
         ELSE Find(Tail(coll), cond)

\* .sort({ date: -1 }): newest first; records with equal dates keep their order.
RECURSIVE InsertNewestFirst(_, _)
InsertNewestFirst(sorted, tx) ==
    IF sorted = <<>> THEN <<tx>>
    ELSE IF DateLT(Head(sorted).date, tx.date)
         THEN <<tx>> \o sorted
         ELSE <<Head(sorted)>> \o InsertNewestFirst(Tail(sorted), tx)

RECURSIVE SortNewestFirst(_)
SortNewestFirst(txs) ==
    IF txs = <<>> THEN <<>>
    ELSE InsertNewestFirst(SortNewestFirst(SubSeq(txs, 1, Len(txs) - 1)), txs[Len(txs)])

\* Budget.findOne({ userId, month, year }): the document, or null.
BudgetFindOne(coll, userId, month, year) ==
    LET hits == { i \in 1..Len(coll) :
                    /\ coll[i].userId = userId
                    /\ coll[i].month = month
                    /\ coll[i].year = year }
    IN  IF hits = {} THEN Null
        ELSE Num(coll[CHOOSE i \in hits : \A j \in hits : i <= j].amount)

RECURSIVE BudgetFind(_, _)
\* Account.find({ userId }) and BillReminder.find({ userId }).
FindByUser(coll, userId) == SelectSeq(coll, LAMBDA doc : doc.userId = userId)

BudgetFind(coll, userId) ==
    IF coll = <<>> THEN <<>>
    ELSE IF Head(coll).userId = userId
         THEN <<Head(coll)>> \o BudgetFind(Tail(coll), userId)
         ELSE BudgetFind(Tail(coll), userId)

(***************************************************************************)
(* Report data generators                                                  *)
(***************************************************************************)
\* if (!grouped[key]) grouped[key] = 0;  grouped[key] += amount;
\* A faulty grouping step, which keeps the last amount of a category instead of
\* adding to it.
AddToCategoryOverwriting(grouped, key, amount) == SetProp(grouped, key, amount)

AddToCategory(grouped, key, amount) ==
    LET g0 == IF ~HasKey(grouped, key) \/ GetProp(grouped, key) = 0
              THEN SetProp(grouped, key, 0)
              ELSE grouped
    IN  SetProp(g0, key, GetProp(g0, key) + amount)

\* The forEach of getMonthlyReportData and of getFullAccountReportData: income
\* is tested first, expense only else; expenses are grouped by category.
RECURSIVE ForEachIncomeElseExpense(_, _)
ForEachIncomeElseExpense(txs, acc) ==
    IF txs = <<>> THEN acc
    ELSE LET tx == Head(txs)
             next == IF TestIncome(tx.type)
                     THEN [acc EXCEPT !.totalIncome = @ + tx.amount]
                     ELSE IF TestExpense(tx.type)
                          THEN [acc EXCEPT
                                  !.totalExpense = @ + tx.amount,
                                  !.grouped = AddToCategory(@, ToStr(tx.category), tx.amount)]
                          ELSE acc
         IN  ForEachIncomeElseExpense(Tail(txs), next)

EmptyTotals == [totalIncome |-> 0, totalExpense |-> 0, grouped |-> EmptyObject]

RECURSIVE SumAmounts(_)
SumAmounts(txs) == IF txs = <<>> THEN 0 ELSE Head(txs).amount + SumAmounts(Tail(txs))

RECURSIVE FilterExpense(_)
FilterExpense(txs) ==
    IF txs = <<>> THEN <<>>
    ELSE IF TestExpense(Head(txs).type)
         THEN <<Head(txs)>> \o FilterExpense(Tail(txs))
         ELSE FilterExpense(Tail(txs))

RECURSIVE FilterIncome(_)
FilterIncome(txs) ==
    IF txs = <<>> THEN <<>>
    ELSE IF TestIncome(Head(txs).type)
         THEN <<Head(txs)>> \o FilterIncome(Tail(txs))
         ELSE FilterIncome(Tail(txs))

RECURSIVE GroupByCategory(_, _)
GroupByCategory(txs, grouped) ==
    IF txs = <<>> THEN grouped
    ELSE GroupByCategory(Tail(txs),
                         AddToCategory(grouped, ToStr(Head(txs).category), Head(txs).amount))

\* (num / den).toFixed(digits) for num >= 0, den > 0: the decimal with that many
\* fraction digits nearest to the quotient, the larger one on a tie.
RECURSIVE Pow10(_)
Pow10(k) == IF k = 0 THEN 1 ELSE 10 * Pow10(k - 1)

RECURSIVE PadZeros(_, _)
PadZeros(cs, width) == IF Len(cs) >= width THEN cs ELSE PadZeros(<<"0">> \o cs, width)

ToFixed(num, den, digits) ==
    LET scaled == (2 * num * Pow10(digits) + den) \div (2 * den)
        whole  == NatToStr(scaled \div Pow10(digits))
    IN  IF digits = 0 THEN whole
        ELSE whole \o <<".">> \o PadZeros(NatToStr(scaled % Pow10(digits)), digits)

\* The window of the monthly and of the budget report.
MonthStart(month, year, zone) == NewDateLocal(year, month - 1, 1, zone)
MonthEnd(month, year, zone)   == NewDateLocal(year, month, 0, zone)

\* A faulty savings, which adds the expense.
MonthlySavingsAdding(totalIncome, totalExpense) == totalIncome + totalExpense

MonthlySavings(totalIncome, totalExpense) == totalIncome - totalExpense

getMonthlyReportData(coll, zone, userId, month, year) ==
    LET startDate == MonthStart(month, year, zone)
        endDate   == MonthEnd(month, year, zone)
        txs == SortNewestFirst(Find(coll, Cond(userId, TRUE, startDate, TRUE, endDate)))
        acc == ForEachIncomeElseExpense(txs, EmptyTotals)
        sortedCategories == SortDescending(ObjectEntries(acc.grouped))
    IN  [kind |-> "monthly",
         month |-> month,
         year |-> year,
         totalIncome |-> acc.totalIncome,
         totalExpense |-> acc.totalExpense,
         savings |-> MonthlySavings(acc.totalIncome, acc.totalExpense),
         categories |-> ObjectFromEntries(sortedCategories),
         highestCategory |-> IF Len(sortedCategories) > 0
                             THEN Str(sortedCategories[1].k)
                             ELSE Str(<<"N", "/", "A">>),
         highestAmount |-> IF Len(sortedCategories) > 0 THEN sortedCategories[1].v ELSE 0,
         transactionCount |-> Len(txs),
         transactions |-> txs]

\* The window of the date-range report.
RangeStart(fromDate, zone) == SetHours(DateParse(fromDate), StartOfDayMs, zone)
RangeEnd(toDate, zone)     == SetHours(DateParse(toDate), EndOfDayMs, zone)

RECURSIVE ForEachTotals(_, _)
ForEachTotals(txs, acc) ==
    IF txs = <<>> THEN acc
    ELSE LET tx == Head(txs)
             next == IF TestIncome(tx.type)
                     THEN [acc EXCEPT !.totalIncome = @ + tx.amount]
                     ELSE IF TestExpense(tx.type)
                          THEN [acc EXCEPT !.totalExpense = @ + tx.amount]
                          ELSE acc
         IN  ForEachTotals(Tail(txs), next)

getDateRangeReportData(coll, zone, userId, fromDate, toDate) ==
    LET start == RangeStart(fromDate, zone)
        end   == RangeEnd(toDate, zone)
        txs == SortNewestFirst(Find(coll, Cond(userId, TRUE, start, TRUE, end)))
        acc == ForEachTotals(txs, EmptyTotals)
    IN  [kind |-> "dateRange",
         start |-> start,
         end |-> end,
         totalIncome |-> acc.totalIncome,
         totalExpense |-> acc.totalExpense,
         savings |-> acc.totalIncome - acc.totalExpense,
         transactionCount |-> Len(txs),
         transactions |-> txs]

\* budgetAmount > 0 ? ((totalSpent / budgetAmount) * 100).toFixed(2) : 0
PercentageUsed(totalSpent, budgetAmount) ==
    IF budgetAmount > 0 THEN Str(ToFixed(totalSpent * 100, budgetAmount, 2)) ELSE Num(0)

IsExceeded(totalSpent, budgetAmount) == totalSpent > budgetAmount

getBudgetReportData(coll, budgetColl, zone, userId, month, year) ==
    LET budget    == BudgetFindOne(budgetColl, userId, month, year)
        startDate == MonthStart(month, year, zone)
        endDate   == MonthEnd(month, year, zone)
        allTransactions == Find(coll, Cond(userId, TRUE, startDate, TRUE, endDate))
        expenses == FilterExpense(allTransactions)
        incomes  == FilterIncome(allTransactions)
        totalIncome == SumAmounts(incomes)
        totalSpent  == SumAmounts(expenses)
        budgetAmount == IF Truthy(budget) THEN budget.n ELSE 0
        sortedExpenses ==
            SortDescending(ObjectEntries(GroupByCategory(expenses, EmptyObject)))
    IN  [kind |-> "budget",
         month |-> month,
         year |-> year,
         totalIncome |-> totalIncome,
         totalExpense |-> totalSpent,
         savings |-> totalIncome - totalSpent,
         monthlyBudget |-> budgetAmount,
         totalSpent |-> totalSpent,
         remainingAmount |-> budgetAmount - totalSpent,
         exceeded |-> IsExceeded(totalSpent, budgetAmount),
         percentageUsed |-> PercentageUsed(totalSpent, budgetAmount),
         expenseCount |-> Len(expenses),
         expensesByCategory |-> ObjectFromEntries(sortedExpenses),
         expenses |-> expenses,
         incomes |-> incomes,
         allTransactions |-> allTransactions]

TopCategories == 10

\* .sort((a, b) => b[1] - a[1]).slice(0, 10)
SortAndSlice(entries) ==
    LET sorted == SortDescending(entries)
    IN  SubSeq(sorted, 1, IF Len(sorted) < TopCategories THEN Len(sorted) ELSE TopCategories)

RECURSIVE SumBudgetAmounts(_)
SumBudgetAmounts(bs) ==
    IF bs = <<>> THEN 0 ELSE Head(bs).amount + SumBudgetAmounts(Tail(bs))

\* fromDate and toDate are values: a date string, or null when not given.
RECURSIVE SumBalances(_)
SumBalances(accs) ==
    IF accs = <<>> THEN 0 ELSE Head(accs).balance + SumBalances(Tail(accs))

getFullAccountReportData(coll, budgetColl, accountColl, reminderColl, zone, userId, fromDate, toDate) ==
    LET userAccounts  == FindByUser(accountColl, userId)
        userReminders == FindByUser(reminderColl, userId)
        userBudgets == BudgetFind(budgetColl, userId)
        hasFrom == Truthy(fromDate)
        hasTo   == Truthy(toDate)
        start == IF hasFrom THEN RangeStart(fromDate.s, zone) ELSE [day |-> 0, ms |-> 0]
        end   == IF hasTo THEN RangeEnd(toDate.s, zone) ELSE [day |-> 0, ms |-> 0]
        txs == SortNewestFirst(Find(coll, Cond(userId, hasFrom, start, hasTo, end)))
        acc == ForEachIncomeElseExpense(txs, EmptyTotals)
        sortedCategories == SortAndSlice(ObjectEntries(acc.grouped))
    IN  [kind |-> "fullAccount",
         accountCount |-> Len(userAccounts),
         totalAccountBalance |-> SumBalances(userAccounts),
         reminderCount |-> Len(userReminders),
         accounts |-> userAccounts,
         reminders |-> userReminders,
         totalIncome |-> acc.totalIncome,
         totalExpense |-> acc.totalExpense,
         netBalance |-> acc.totalIncome - acc.totalExpense,
         transactionCount |-> Len(txs),
         budgetCount |-> Len(userBudgets),
         totalBudgetAllotted |-> SumBudgetAmounts(userBudgets),
         transactions |-> txs,
         budgets |-> userBudgets,
         categoryWiseSummary |-> ObjectFromEntries(sortedCategories)]

(***************************************************************************)
(* Inputs                                                                  *)
(***************************************************************************)
sIncome     == <<"i", "n", "c", "o", "m", "e">>
sExpense    == <<"e", "x", "p", "e", "n", "s", "e">>
sExpenseCap == <<"E", "x", "p", "e", "n", "s", "e">>
sTransfer   == <<"t", "r", "a", "n", "s", "f", "e", "r">>
sRefund     == <<"I", "n", "c", "o", "m", "e", " ", "(", "e", "x", "p", "e", "n", "s", "e",
                 " ", "r", "e", "f", "u", "n", "d", ")">>
sFood       == <<"F", "o", "o", "d">>
sRent       == <<"R", "e", "n", "t">>
sSalary     == <<"S", "a", "l", "a", "r", "y">>
sPdf        == <<"p", "d", "f">>
sExcel      == <<"e", "x", "c", "e", "l">>
sCsv        == <<"c", "s", "v">>
sXml        == <<"x", "m", "l">>
sFeb01      == <<"2", "0", "2", "6", "-", "0", "2", "-", "0", "1">>
sFeb28      == <<"2", "0", "2", "6", "-", "0", "2", "-", "2", "8">>

UserA == "userA"
UserB == "userB"

Tx(userId, type, amount, category, date) ==
    [userId |-> userId, type |-> type, amount |-> amount, category |-> category, date |-> date]

BudgetDoc(userId, month, year, amount) ==
    [userId |-> userId, month |-> month, year |-> year, amount |-> amount]

AccountDoc(userId, name, balance) == [userId |-> userId, name |-> name, balance |-> balance]

ReminderDoc(userId, name, amount, dueDate) ==
    [userId |-> userId, name |-> name, amount |-> amount, dueDate |-> dueDate]

Body(month, year, fromDate, toDate, format) ==
    [month |-> month, year |-> year, fromDate |-> fromDate, toDate |-> toDate,
     format |-> format]

NoRequest == [route |-> "none", body |-> Body(Undefined, Undefined, Undefined, Undefined, Undefined)]
NoReport  == [kind |-> "none"]
NoPdf == [y |-> 0, pages |-> <<>>, ended |-> FALSE]

Epoch == MakeDate(0, 0)

\* The connections a client holds; each carries one request at a time.
Clients == {"c1", "c2"}

Answered(statusCode) == [pc |-> "done", statusCode |-> statusCode]

NoTransfers == [sent |-> 0, at |-> [c \in Clients |-> Answered(0)]]
NoResponse ==
    [statusCode |-> 0, contentType |-> "", disposition |-> FALSE, fileExt |-> "",
     body |-> "none", message |-> "", sections |-> <<>>, percents |-> <<>>,
     summary |-> {}, piped |-> FALSE, complete |-> FALSE]

MaxTx   == 3
MaxWide == 11

Noon == 12 * 60 * MsPerMinute

\* All sequences over alphabet of length at most n.
RECURSIVE SeqsUpTo(_, _)
SeqsUpTo(alphabet, n) ==
    IF n = 0 THEN {<<>>}
    ELSE LET shorter == SeqsUpTo(alphabet, n - 1)
         IN  shorter \cup { Append(q, a) : q \in shorter, a \in alphabet }

\* Records of one February day that differ in type, category and amount.
AmountRecords(zone) ==
    LET at == NewDateLocalAt(2026, 1, 10, Noon, zone)
    IN  { Tx(UserA, Str(sIncome), 500, Str(sSalary), at),
          Tx(UserA, Str(sTransfer), 100, Undefined, at),
          Tx(UserA, Str(sRefund), 100, Str(sFood), at),
          Tx(UserA, Str(sExpense), 100, Str(sFood), at),
          Tx(UserA, Str(sExpenseCap), 100, Str(sRent), at),
          Tx(UserA, Str(sExpense), 100, Str(<<"2">>), at),
          Tx(UserA, Str(sExpense), 500, Str(<<"1", "0">>), at) }

\* Local instants around the edges of February 2026 and of December 2026.
EdgeInstants(zone) ==
    { NewDateLocalAt(2026, 0, 31, EndOfDayMs, zone),
      NewDateLocalAt(2026, 1, 1, 0, zone),
      NewDateLocalAt(2026, 1, 28, 0, zone),
      NewDateLocalAt(2026, 1, 28, 1, zone),
      NewDateLocalAt(2026, 1, 28, 23 * 60 * MsPerMinute, zone),
      NewDateLocalAt(2026, 1, 28, EndOfDayMs, zone),
      NewDateLocalAt(2026, 2, 1, 0, zone),
      NewDateLocalAt(2026, 11, 31, Noon, zone),
      NewDateLocalAt(2027, 0, 1, 0, zone) }

EdgeRecords(zone) ==
    { Tx(UserA, Str(sExpense), 100, Str(sFood), at) : at \in EdgeInstants(zone) }
        \cup { Tx(UserB, Str(sExpense), 100, Str(sFood), NewDateLocalAt(2026, 1, 10, Noon, zone)) }

\* The first n of a run of expenses, each in a category of its own ("c1", "c2", ...)
\* with amounts that rise and fall.
WideRecord(i, zone) ==
    Tx(UserA, Str(sExpense), 100 + 10 * ((i * 7) % 5), Str(<<"c">> \o NatToStr(i)),
       NewDateLocalAt(2026, 1, 10, Noon, zone))

WideStore(n, zone) == [i \in 1..n |-> WideRecord(i, zone)]

Zones == {-300, 0, 330}

BudgetColls ==
    { <<>>,
      <<BudgetDoc(UserA, 2, 2026, 0)>>,
      <<BudgetDoc(UserA, 2, 2026, 1000)>>,
      <<BudgetDoc(UserB, 2, 2026, 50), BudgetDoc(UserA, 2, 2026, 300)>> }

AccountColls ==
    { <<>>,
      <<AccountDoc(UserA, "Cash", 0)>>,
      <<AccountDoc(UserA, "Cash", 100), AccountDoc(UserB, "Bank", 50),
        AccountDoc(UserA, "Bank", 300)>> }

ReminderColls ==
    { <<>>,
      <<ReminderDoc(UserB, "Water", 40, [day |-> 20500, ms |-> 0]),
        ReminderDoc(UserA, "Rent", 500, [day |-> 20513, ms |-> 0])>> }

Months    == {2, 12}
Years     == {2026}
DateStrs  == {sFeb01, sFeb28}

(***************************************************************************)
(* The aggregators applied to a data source: one report is built from the  *)
(* collections drawn by InitAggregate.                                     *)
(***************************************************************************)
InitAggregate ==
    /\ \/ /\ tz = 0
          /\ transactions \in SeqsUpTo(AmountRecords(0), MaxTx)
          /\ budgets \in BudgetColls
          /\ accounts = <<>>
          /\ reminders = <<>>
       \/ /\ tz \in Zones
          /\ transactions \in SeqsUpTo(EdgeRecords(tz), MaxTx - 1)
          /\ budgets = <<>>
          /\ accounts = <<>>
          /\ reminders = <<>>
       \/ /\ tz = 0
          /\ transactions \in { WideStore(n, 0) : n \in (MaxWide - 2)..MaxWide }
          /\ budgets = <<>>
          /\ accounts \in AccountColls
          /\ reminders \in ReminderColls
    /\ req = NoRequest
    /\ pc = "idle"
    /\ reportData = NoReport
    /\ res = NoResponse
    /\ queries = <<>>
    /\ rendered = <<>>
    /\ pdf = NoPdf
    /\ inflight = NoTransfers
    /\ sessions = {}
    /\ users = <<>>
    /\ notifications = <<>>
    /\ now = Epoch

BuildMonthly ==
    /\ reportData = NoReport
    /\ \E month \in Months, year \in Years :
          /\ req' = [route |-> "monthly",
                     body |-> Body(Num(month), Num(year), Undefined, Undefined, Undefined)]
          /\ reportData' = getMonthlyReportData(transactions, tz, UserA, month, year)
    /\ UNCHANGED <<authVars, inflight, pdf, tz, transactions, budgets, accounts, reminders, pc, res, queries, rendered>>

BuildDateRange ==
    /\ reportData = NoReport
    /\ \E fromDate \in DateStrs, toDate \in DateStrs :
          /\ req' = [route |-> "dateRange",
                     body |-> Body(Undefined, Undefined, Str(fromDate), Str(toDate), Undefined)]
          /\ reportData' = getDateRangeReportData(transactions, tz, UserA, fromDate, toDate)
    /\ UNCHANGED <<authVars, inflight, pdf, tz, transactions, budgets, accounts, reminders, pc, res, queries, rendered>>

BuildBudget ==
    /\ reportData = NoReport
    /\ \E month \in Months, year \in Years :
          /\ req' = [route |-> "budget",
                     body |-> Body(Num(month), Num(year), Undefined, Undefined, Undefined)]
          /\ reportData' = getBudgetReportData(transactions, budgets, tz, UserA, month, year)
    /\ UNCHANGED <<authVars, inflight, pdf, tz, transactions, budgets, accounts, reminders, pc, res, queries, rendered>>

BuildFullAccount ==
    /\ reportData = NoReport
    /\ \E fromDate \in {Null} \cup {Str(d) : d \in DateStrs},
          toDate \in {Null} \cup {Str(d) : d \in DateStrs} :
          /\ req' = [route |-> "fullAccount",
                     body |-> Body(Undefined, Undefined, fromDate, toDate, Undefined)]
          /\ reportData' =
                getFullAccountReportData(transactions, budgets, accounts, reminders, tz, UserA,
                                         fromDate, toDate)
    /\ UNCHANGED <<authVars, inflight, pdf, tz, transactions, budgets, accounts, reminders, pc, res, queries, rendered>>

NextAggregate == BuildMonthly \/ BuildDateRange \/ BuildBudget \/ BuildFullAccount

SpecAggregate == InitAggregate /\ [][NextAggregate]_vars

(***************************************************************************)
(* Format generators, at the level of the sections they emit.  A generator *)
(* yields [threw, sections]: the section titles it writes, in order, and   *)
(* whether a TypeError ends it while it writes the rows of the last one.   *)
(***************************************************************************)
AnyNullType(txs) == \E i \in 1..Len(txs) : txs[i].type.t \in {"null", "undefined"}

\* x.charAt(0) where x is the display type of line 617 / 1043: 'Income' or
\* 'Expense' when the type matches, tx.type itself otherwise.
DisplayTypeThrows(txs) ==
    \E i \in 1..Len(txs) :
        /\ ~TestIncome(txs[i].type)
        /\ ~TestExpense(txs[i].type)
        /\ txs[i].type.t \in {"null", "undefined"}

IsOverspent(rd) == rd.totalSpent > rd.monthlyBudget

\* A faulty gate, which writes the section whatever its source holds.
OptAlways(cond, title) == <<title>>

Opt(cond, title) == IF cond THEN <<title>> ELSE <<>>

(***************************************************************************)
(* Percentages as the generators write them.  A cell is [label, base,      *)
(* number]: the divisor of the percentage and the text (or number) written *)
(* for it, before any '%' suffix.                                          *)
(***************************************************************************)
sNaN      == <<"N", "a", "N">>
sInfinity == <<"I", "n", "f", "i", "n", "i", "t", "y">>

\* ((num / den) * 100).toFixed(digits), den >= 0.
PctFixed(num, den, digits) ==
    IF den = 0
    THEN IF num = 0 THEN sNaN
         ELSE IF num > 0 THEN sInfinity ELSE <<"-">> \o sInfinity
    ELSE IF num < 0 THEN <<"-">> \o ToFixed((0 - num) * 100, den, digits)
         ELSE ToFixed(num * 100, den, digits)

\* base > 0 ? ((num / base) * 100).toFixed(digits) : 0
GuardedPct(num, base, digits) == IF base > 0 THEN Str(PctFixed(num, base, digits)) ELSE Num(0)

Cell(label, base, number) == [label |-> label, base |-> base, number |-> number]

\* One cell for each entry of a category mapping.
CategoryCells(obj, base, digits) ==
    LET es == ObjectEntries(obj)
    IN  [i \in 1..Len(es) |-> Cell("% of Total", base, GuardedPct(es[i].v, base, digits))]

\* One cell for each account.
ShareCells(accs, base, digits) ==
    [i \in 1..Len(accs) |-> Cell("Share", base, GuardedPct(accs[i].balance, base, digits))]

NextMonthRequirement(rd) == IF IsOverspent(rd) THEN rd.totalSpent - rd.monthlyBudget ELSE 0

\* nextMonthRequirement > 0 ? ((nextMonthRequirement / monthlyBudget) * 100).toFixed(1) : 0
NextMonthSavingsNeeded(rd) ==
    IF NextMonthRequirement(rd) > 0
    THEN Str(PctFixed(NextMonthRequirement(rd), rd.monthlyBudget, 1))
    ELSE Num(0)

\* A number of tenths as JavaScript prints it.
TenthsToStr(r) ==
    LET a == IF r < 0 THEN 0 - r ELSE r
        body == NatToStr(a \div 10) \o (IF a % 10 = 0 THEN <<>> ELSE <<".">> \o NatToStr(a % 10))
    IN  IF r < 0 THEN <<"-">> \o body ELSE body

\* 100 - nextMonthSavingsNeeded
HundredMinusNeeded(rd) ==
    IF NextMonthRequirement(rd) > 0
    THEN IF rd.monthlyBudget = 0 THEN Str(<<"-">> \o sInfinity)
         ELSE Str(TenthsToStr(1000 - (2 * NextMonthRequirement(rd) * 1000 + rd.monthlyBudget)
                                         \div (2 * rd.monthlyBudget)))
    ELSE Num(100)

RecoveryCells(rd) ==
    IF IsOverspent(rd)
    THEN <<Cell("Extra To Save Next Month", rd.monthlyBudget, NextMonthSavingsNeeded(rd)),
           Cell("Target Spending For Recovery", rd.monthlyBudget, HundredMinusNeeded(rd)),
           Cell("Financial Strategy", rd.monthlyBudget, NextMonthSavingsNeeded(rd))>>
    ELSE <<>>

PDFPercents(reportType, rd) ==
    CASE reportType = "monthly" ->
            <<Cell("Savings Ratio:", rd.totalIncome,
                   IF rd.totalIncome > 0 THEN Str(PctFixed(rd.savings, rd.totalIncome, 1))
                   ELSE Str(<<"0">>)),
              Cell("Monthly Expense", rd.totalIncome,
                   Str(PctFixed(rd.totalExpense, rd.totalIncome, 0))),
              Cell("Net Savings", rd.totalIncome,
                   IF rd.totalIncome > 0 THEN Str(PctFixed(rd.savings, rd.totalIncome, 1))
                   ELSE Str(<<"0">>))>>
              \o CategoryCells(rd.categories, rd.totalExpense, 1)
      [] reportType = "dateRange" -> <<>>
      [] reportType = "budget" ->
            <<Cell("Budget Usage:", rd.monthlyBudget, rd.percentageUsed),
              Cell("Amount Spent This Month", rd.monthlyBudget, rd.percentageUsed),
              Cell("Savings After Budget", rd.totalIncome,
                   GuardedPct(rd.savings, rd.totalIncome, 1))>>
              \o RecoveryCells(rd)
              \o CategoryCells(rd.expensesByCategory, rd.totalSpent, 1)
      [] OTHER ->
            [i \in 1..Len(rd.accounts) |->
                Cell("Share", rd.totalAccountBalance,
                     IF rd.totalAccountBalance > 0
                     THEN Str(PctFixed(rd.accounts[i].balance, rd.totalAccountBalance, 0))
                     ELSE Str(<<"0">>))]
              \o CategoryCells(rd.categoryWiseSummary, rd.totalExpense, 0)

ExcelPercents(reportType, rd) ==
    CASE reportType = "monthly" ->
            <<Cell("Savings Ratio (%)", rd.totalIncome, GuardedPct(rd.savings, rd.totalIncome, 2)),
              Cell("Monthly Expense", rd.totalIncome,
                   GuardedPct(rd.totalExpense, rd.totalIncome, 1)),
              Cell("Net Savings", rd.totalIncome, GuardedPct(rd.savings, rd.totalIncome, 1))>>
              \o CategoryCells(rd.categories, rd.totalExpense, 2)
      [] reportType = "dateRange" -> <<>>
      [] reportType = "budget" ->
            <<Cell("Budget Usage %", rd.monthlyBudget, rd.percentageUsed)>>
              \o RecoveryCells(rd)
              \o CategoryCells(rd.expensesByCategory, rd.totalSpent, 2)
      [] OTHER ->
            ShareCells(rd.accounts, rd.totalAccountBalance, 2)
              \o CategoryCells(rd.categoryWiseSummary, rd.totalExpense, 2)

CSVPercents(reportType, rd) ==
    CASE reportType = "monthly" ->
            <<Cell("Saving Rate (%)", rd.totalIncome, GuardedPct(rd.savings, rd.totalIncome, 2))>>
              \o CategoryCells(rd.categories, rd.totalExpense, 2)
      [] reportType = "dateRange" -> <<>>
      [] reportType = "budget" ->
            <<Cell("Usage %", rd.monthlyBudget, rd.percentageUsed)>>
              \o CategoryCells(rd.expensesByCategory, rd.totalSpent, 2)
      [] OTHER ->
            ShareCells(rd.accounts, rd.totalAccountBalance, 2)
              \o CategoryCells(rd.categoryWiseSummary, rd.totalExpense, 2)

(***************************************************************************)
(* The summary each generator writes first: the PDF's four cards, the      *)
(* first titled block of the worksheet and of the CSV.  A pair is [label,  *)
(* value] with the value in hundredths, which holds every amount and every *)
(* percentage of at most two decimals.                                     *)
(***************************************************************************)
Pair(label, value) == [label |-> label, value |-> value]

Amount(k) == 100 * k

Abs(k) == IF k < 0 THEN 0 - k ELSE k

\* base > 0 ? ((num / base) * 100).toFixed(digits) : 0, as a number of hundredths.
PctValue(num, base, digits) ==
    IF base > 0
    THEN LET scaled == (2 * Abs(num) * 100 * Pow10(digits) + base) \div (2 * base)
             v == scaled * Pow10(2 - digits)
         IN  IF num < 0 THEN 0 - v ELSE v
    ELSE 0

PDFSummary(reportType, rd) ==
    CASE reportType = "monthly" ->
            { Pair("Monthly Income:", Amount(rd.totalIncome)),
              Pair("Monthly Expense:", Amount(rd.totalExpense)),
              Pair("Savings:", Amount(rd.savings)),
              Pair("Savings Ratio:", PctValue(rd.savings, rd.totalIncome, 1)) }
      [] reportType = "dateRange" ->
            { Pair("Total Income:", Amount(rd.totalIncome)),
              Pair("Total Expenses:", Amount(rd.totalExpense)),
              Pair("Net Change:", Amount(rd.savings)),
              Pair("Total Transactions:", Amount(rd.transactionCount)) }
      [] reportType = "budget" ->
            { Pair("Fixed Budget:", Amount(rd.monthlyBudget)),
              Pair("Amount Spent:", Amount(rd.totalSpent)),
              Pair(IF IsOverspent(rd) THEN "Overspent By:" ELSE "Budget Remaining:",
                   Amount(Abs(rd.remainingAmount))),
              Pair("Budget Usage:", PctValue(rd.totalSpent, rd.monthlyBudget, 2)) }
      [] OTHER ->
            { Pair("Active Accounts:", Amount(rd.accountCount)),
              Pair("Total Balance:", Amount(rd.totalAccountBalance)),
              Pair("Total Income:", Amount(rd.totalIncome)),
              Pair("Total Expenses:", Amount(rd.totalExpense)) }

ExcelSummary(reportType, rd) ==
    CASE reportType = "monthly" ->
            { Pair("Monthly Income", Amount(rd.totalIncome)),
              Pair("Monthly Expense", Amount(rd.totalExpense)),
              Pair("Savings", Amount(rd.savings)),
              Pair("Savings Ratio (%)", PctValue(rd.savings, rd.totalIncome, 2)) }
      [] reportType = "dateRange" ->
            { Pair("Total Income", Amount(rd.totalIncome)),
              Pair("Total Expense", Amount(rd.totalExpense)),
              Pair("Net Change", Amount(rd.savings)),
              Pair("Transaction Count", Amount(rd.transactionCount)) }
      [] reportType = "budget" ->
            { Pair("Fixed Monthly Budget", Amount(rd.monthlyBudget)),
              Pair("Amount Spent This Month", Amount(rd.totalSpent)),
              Pair(IF IsOverspent(rd) THEN "Overspent Amount" ELSE "Remaining Budget",
                   Amount(Abs(rd.remainingAmount))),
              Pair("Budget Usage %", PctValue(rd.totalSpent, rd.monthlyBudget, 2)),
              Pair("Monthly Income", Amount(rd.totalIncome)),
              Pair("Savings", Amount(rd.savings)) }
      [] OTHER ->
            { Pair("Total Accounts", Amount(rd.accountCount)),
              Pair("Total Balance", Amount(rd.totalAccountBalance)) }

CSVSummary(reportType, rd) ==
    CASE reportType = "monthly" ->
            { Pair("Total Income", Amount(rd.totalIncome)),
              Pair("Total Expense", Amount(rd.totalExpense)),
              Pair("Savings", Amount(rd.savings)),
              Pair("Saving Rate (%)", PctValue(rd.savings, rd.totalIncome, 2)) }
      [] reportType = "dateRange" ->
            { Pair("Total Income", Amount(rd.totalIncome)),
              Pair("Total Expense", Amount(rd.totalExpense)),
              Pair("Net Change", Amount(rd.savings)),
              Pair("Total Transactions", Amount(rd.transactionCount)) }
      [] reportType = "budget" ->
            { Pair("Total Income", Amount(rd.totalIncome)),
              Pair("Total Expense", Amount(rd.totalExpense)),
              Pair("Savings", Amount(rd.savings)),
              Pair("Approved Budget", Amount(rd.monthlyBudget)),
              Pair("Amount Spent", Amount(rd.totalSpent)),
              Pair("Remaining Budget", Amount(rd.remainingAmount)),
              Pair("Usage %", PctValue(rd.totalSpent, rd.monthlyBudget, 2)) }
      [] OTHER ->
            { Pair("Total Accounts", Amount(rd.accountCount)),
              Pair("Total Balance", Amount(rd.totalAccountBalance)) }

\* The subtext of the date-range "Total Transactions:" card: the records whose
\* type is exactly 'income', and all the others.
incomeTx(txs)  == Len(SelectSeq(txs, LAMBDA t : t.type = Str(sIncome)))
expenseTx(txs) == Len(SelectSeq(txs, LAMBDA t : t.type # Str(sIncome)))

Subtext(rd) == [income |-> incomeTx(rd.transactions), expenses |-> expenseTx(rd.transactions)]

generatePDF(reportType, rd) ==
    CASE reportType = "monthly" ->
            [threw |-> FALSE,
             sections |-> <<"Summary Cards", "Income vs Expense Breakdown",
                            "Category-wise Expense Analysis">>]
      [] reportType = "dateRange" ->
            [threw |-> DisplayTypeThrows(rd.transactions),
             sections |-> <<"Summary Cards", "Transaction Details">>]
      [] reportType = "budget" ->
            [threw |-> FALSE,
             sections |-> <<"Summary Cards", "Budget Status & Analysis">>
                            \o Opt(IsOverspent(rd), "Overspending Recovery Plan")
                            \o <<"Category-wise Expense Breakdown">>]
      [] OTHER ->
            LET head == <<"Summary Cards", "Financial Summary">>
                          \o Opt(Len(rd.accounts) > 0, "Account Details")
                          \o Opt(Len(ObjectEntries(rd.categoryWiseSummary)) > 0,
                                 "Category-wise Expense Summary")
                          \o Opt(Len(rd.reminders) > 0, "Bill Reminders")
                          \o Opt(Len(rd.budgets) > 0, "Budget Details")
            IN  [threw |-> Len(rd.transactions) > 0 /\ AnyNullType(rd.transactions),
                 sections |-> head \o Opt(Len(rd.transactions) > 0, "Transaction History")]

generateExcel(reportType, rd) ==
    CASE reportType = "monthly" ->
            [threw |-> FALSE,
             sections |-> <<"Financial Summary", "Income vs Expense Analysis">>
                            \o Opt(Len(ObjectEntries(rd.categories)) > 0,
                                   "Category-wise Expense Analysis")]
      [] reportType = "dateRange" ->
            [threw |-> DisplayTypeThrows(rd.transactions),
             sections |-> <<"Financial Summary", "All Transactions">>]
      [] reportType = "budget" ->
            [threw |-> FALSE,
             sections |-> <<"Budget Status & Analysis">>
                            \o Opt(IsOverspent(rd), "Overspending Recovery Plan")
                            \o Opt(Len(ObjectEntries(rd.expensesByCategory)) > 0,
                                   "Category-wise Expense Breakdown")]
      [] OTHER ->
            LET head == <<"Account Summary", "Financial Summary">>
                          \o Opt(Len(rd.accounts) > 0, "Account Details")
                          \o Opt(Len(ObjectEntries(rd.categoryWiseSummary)) > 0,
                                 "Category-wise Summary")
                          \o Opt(Len(rd.reminders) > 0, "Bill Reminders")
                          \o Opt(Len(rd.budgets) > 0, "Budget Details")
            IN  [threw |-> Len(rd.transactions) > 0 /\ AnyNullType(rd.transactions),
                 sections |-> head \o Opt(Len(rd.transactions) > 0, "Transaction History")]

generateCSV(reportType, rd) ==
    CASE reportType = "monthly" ->
            [threw |-> FALSE,
             sections |-> <<"Financial Summary">>
                            \o Opt(Len(ObjectEntries(rd.categories)) > 0, "Category-wise Expenses")
                            \o Opt(Len(rd.transactions) > 0, "Daily Summary")]
      [] reportType = "dateRange" ->
            [threw |-> FALSE, sections |-> <<"Financial Summary", "All Transactions">>]
      [] reportType = "budget" ->
            [threw |-> FALSE,
             sections |-> <<"Budget Summary">>
                            \o Opt(Len(ObjectEntries(rd.expensesByCategory)) > 0,
                                   "Category-wise Expenses")]
      [] OTHER ->
            [threw |-> FALSE,
             sections |-> <<"Account Summary", "Financial Summary">>
                            \o Opt(Len(rd.accounts) > 0, "Account Details")
                            \o Opt(Len(ObjectEntries(rd.categoryWiseSummary)) > 0,
                                   "Category-wise Summary")
                            \o Opt(Len(rd.reminders) > 0, "Bill Reminders")
                            \o Opt(Len(rd.budgets) > 0, "Budget Details")
                            \o Opt(Len(rd.transactions) > 0, "Transaction History")]

(***************************************************************************)
(* Routes.  A handler runs from the request to its first await in one      *)
(* step, and from each settled await to the next (or to its end) in one    *)
(* step.                                                                   *)
(***************************************************************************)
\* res.status(code).json({ message }): the status, a JSON content type and the
\* body; headers set before stay set unless json() overwrites them.
Json(r, code, message) ==
    [r EXCEPT !.statusCode = code, !.contentType = "application/json",
              !.body = "json", !.message = message]

\* A faulty catch block, which answers as the required-field test does.
CatchErrorAsBadRequest(r) == Json(r, 400, "Missing required fields")

\* The catch block of every report route.
CatchError(r) == Json(r, 500, "Error generating report")

ReportType(route) ==
    CASE route = "monthly" -> "monthly"
      [] route = "daterange" -> "dateRange"
      [] route = "budget" -> "budget"
      [] OTHER -> "fullAccount"

\* The queries an aggregator awaits, in order.
QueryPlan(route) ==
    CASE route = "monthly" -> <<"Transaction.find">>
      [] route = "daterange" -> <<"Transaction.find">>
      [] route = "budget" -> <<"Budget.findOne", "Transaction.find">>
      [] OTHER -> <<"User.findById", "Account.find", "BillReminder.find", "Budget.find",
                    "Transaction.find">>

\* The required-field test at the head of each handler.
MissingFields(route, body) ==
    CASE route \in {"monthly", "budget"} ->
            ~Truthy(body.month) \/ ~Truthy(body.year) \/ ~Truthy(body.format)
      [] route = "daterange" ->
            ~Truthy(body.fromDate) \/ ~Truthy(body.toDate) \/ ~Truthy(body.format)
      [] OTHER -> ~Truthy(body.format)

MissingMessage(route) ==
    CASE route \in {"monthly", "budget"} -> "Missing required fields: month, year, format"
      [] route = "daterange" -> "Missing required fields: fromDate, toDate, format"
      [] OTHER -> "Missing required field: format"

\* format === 'pdf' ? 'pdf' : format === 'excel' ? 'xlsx' : 'csv'
FileExt(format) ==
    IF format = Str(sPdf) THEN "pdf" ELSE IF format = Str(sExcel) THEN "xlsx" ELSE "csv"

\* fromDate || null
OrNull(v) == IF Truthy(v) THEN v ELSE Null

Aggregate(route, body, userId) ==
    CASE route = "monthly" ->
            getMonthlyReportData(transactions, tz, userId, body.month.n, body.year.n)
      [] route = "daterange" ->
            getDateRangeReportData(transactions, tz, userId, body.fromDate.s, body.toDate.s)
      [] route = "budget" ->
            getBudgetReportData(transactions, budgets, tz, userId, body.month.n, body.year.n)
      [] OTHER ->
            getFullAccountReportData(transactions, budgets, accounts, reminders, tz, userId,
                                     OrNull(body.fromDate), OrNull(body.toDate))

\* generatePDF's writes to the response: both headers and the pipe come before
\* the drawing, pdf.end() after it.
SendPDF(r, out, ext) ==
    LET started == [r EXCEPT !.contentType = "application/pdf", !.disposition = TRUE,
                             !.fileExt = ext, !.piped = TRUE]
    IN  IF out.threw THEN CatchError(started)
        ELSE [started EXCEPT !.statusCode = 200, !.body = "document",
                             !.sections = out.sections, !.percents = out.percents,
                             !.summary = out.summary, !.complete = TRUE]

\* generateExcel builds the whole worksheet, then sets the headers and writes.
SendExcel(r, out, ext) ==
    IF out.threw THEN CatchError(r)
    ELSE [r EXCEPT
            !.statusCode = 200,
            !.contentType = "application/vnd.openxmlformats-officedocument.spreadsheetml.sheet",
            !.disposition = TRUE, !.fileExt = ext, !.body = "document",
            !.sections = out.sections, !.percents = out.percents,
            !.summary = out.summary, !.complete = TRUE]

\* generateCSV builds the rows, then sets the headers and sends.
SendCSV(r, out, ext) ==
    [r EXCEPT !.statusCode = 200, !.contentType = "text/csv", !.disposition = TRUE,
              !.fileExt = ext, !.body = "document", !.sections = out.sections,
              !.percents = out.percents, !.summary = out.summary, !.complete = TRUE]

\* What a generator wrote: its sections, its percentages and its summary.
Written(out, percents, summary) ==
    [threw |-> out.threw, sections |-> out.sections, percents |-> percents,
     summary |-> summary]

\* The format dispatch that follows the aggregator in each handler.
Dispatch(r, route, format, rd) ==
    LET type == ReportType(route)
    IN  IF format = Str(sPdf)
        THEN SendPDF(r, Written(generatePDF(type, rd), PDFPercents(type, rd),
                                PDFSummary(type, rd)), FileExt(format))
        ELSE IF format = Str(sExcel)
        THEN SendExcel(r, Written(generateExcel(type, rd), ExcelPercents(type, rd),
                                  ExcelSummary(type, rd)), FileExt(format))
        ELSE IF format = Str(sCsv)
        THEN SendCSV(r, Written(generateCSV(type, rd), CSVPercents(type, rd),
                                CSVSummary(type, rd)), FileExt(format))
        ELSE Json(r, 400, "Invalid format. Use: pdf, excel, or csv")

Generator(format) ==
    IF format = Str(sPdf) THEN <<"generatePDF">>
    ELSE IF format = Str(sExcel) THEN <<"generateExcel">>
    ELSE IF format = Str(sCsv) THEN <<"generateCSV">>
    ELSE <<>>

Formats == {Str(sPdf), Str(sExcel), Str(sCsv), Str(sXml), Undefined}

Bodies(route) ==
    CASE route \in {"monthly", "budget"} ->
            { Body(m, Num(2026), Undefined, Undefined, f) :
                 m \in {Num(2), Undefined}, f \in Formats }
      [] route = "daterange" ->
            { Body(Undefined, Undefined, d, Str(sFeb28), f) :
                 d \in {Str(sFeb01), Undefined}, f \in Formats }
      [] OTHER ->
            { Body(Undefined, Undefined, d, d, f) :
                 d \in {Str(sFeb28), Undefined}, f \in Formats }

\* The handler from the request to its first await: the required-field test,
\* then the aggregator's first query.
Post(route) ==
    /\ pc \in {"idle", "done"}
    /\ \E body \in Bodies(route) :
          /\ req' = [route |-> route, body |-> body]
          /\ reportData' = NoReport
          /\ rendered' = <<>>
          /\ IF MissingFields(route, body)
             THEN /\ res' = Json(NoResponse, 400, MissingMessage(route))
                  /\ queries' = <<>>
                  /\ pc' = "done"
             ELSE /\ res' = NoResponse
                  /\ queries' = <<[name |-> QueryPlan(route)[1], ok |-> TRUE]>>
                  /\ pc' = "await"
    /\ UNCHANGED <<authVars, inflight, pdf, tz, transactions, budgets, accounts, reminders>>

PostMonthly     == Post("monthly")
PostDateRange   == Post("daterange")
PostBudget      == Post("budget")
PostFullAccount == Post("fullaccount")

\* The awaited query rejects: the aggregator's promise rejects and the handler's
\* catch block answers.
QueryRejects ==
    /\ pc = "await"
    /\ queries' = [queries EXCEPT ![Len(queries)].ok = FALSE]
    /\ res' = CatchError(res)
    /\ pc' = "done"
    /\ UNCHANGED <<authVars, inflight, pdf, tz, transactions, budgets, accounts, reminders, req, reportData, rendered>>

\* The awaited query resolves and the aggregator issues its next one.
QueryResolves ==
    /\ pc = "await"
    /\ Len(queries) < Len(QueryPlan(req.route))
    /\ queries' = Append(queries, [name |-> QueryPlan(req.route)[Len(queries) + 1], ok |-> TRUE])
    /\ UNCHANGED <<authVars, inflight, pdf, tz, transactions, budgets, accounts, reminders, req, pc, reportData, res,
                 rendered>>

\* The last query resolves: the aggregator returns and the handler goes on to
\* the file name and the format dispatch.
Respond ==
    /\ pc = "await"
    /\ Len(queries) = Len(QueryPlan(req.route))
    /\ reportData' = Aggregate(req.route, req.body, UserA)
    /\ rendered' = Generator(req.body.format)
    /\ res' = Dispatch(res, req.route, req.body.format, reportData')
    /\ pc' = "done"
    /\ UNCHANGED <<authVars, inflight, pdf, tz, transactions, budgets, accounts, reminders, req, queries>>

\* Records as the routes can leave them: a type is null after PUT
\* /transactions/:id with { type: null }, which findByIdAndUpdate applies
\* without running the schema's validators.
RouteRecords(zone) ==
    LET at == NewDateLocalAt(2026, 1, 10, Noon, zone)
    IN  { Tx(UserA, Str(sIncome), 300, Str(sSalary), at),
          Tx(UserA, Str(sExpense), 100, Str(sFood), at),
          Tx(UserA, Str(sExpenseCap), 500, Str(sRent), at),
          Tx(UserA, Null, 100, Str(sFood), at) }

Init ==
    /\ tz = 0
    /\ transactions \in SeqsUpTo(RouteRecords(0), MaxTx - 1)
    /\ budgets \in BudgetColls
    /\ accounts \in AccountColls
    /\ reminders \in ReminderColls
    /\ req = NoRequest
    /\ pc = "idle"
    /\ reportData = NoReport
    /\ res = NoResponse
    /\ queries = <<>>
    /\ rendered = <<>>
    /\ pdf = NoPdf
    /\ inflight = NoTransfers
    /\ sessions = {}
    /\ users = <<>>
    /\ notifications = <<>>
    /\ now = Epoch

Next ==
    \/ PostMonthly
    \/ PostDateRange
    \/ PostBudget
    \/ PostFullAccount
    \/ QueryRejects
    \/ QueryResolves
    \/ Respond

Spec == Init /\ [][Next]_vars

(***************************************************************************)
(* The page layout of generatePDF.  A page is the sequence of what is      *)
(* drawn on it: "bar" (the header bar), "cards", "title" (a section        *)
(* title), "head" (a table's header row), "row" (a data row), "footer".    *)
(* Lengths are in points.  The library's font metrics, which fix the       *)
(* height of the text above the first table, are not part of the source:   *)
(* the first table may start at any of FirstTableYs.                       *)
(***************************************************************************)
PageHeight    == 792
HeaderHeight  == 30
RowHeight     == 25
BottomReserve == 50
TopY          == 68
RedrawOffset  == 20
LineGap       == 10
SectionGap    == 40

MaxRows   == 18
MaxTables == 2

FirstTableYs == { 300 + 5 * k : k \in 0..4 }

Draw(doc, item) ==
    [doc EXCEPT !.pages[Len(doc.pages)] = Append(@, item)]

\* pdf.addPage(); drawHeader(); pdf.moveDown(2)
addNewPage(doc) == [doc EXCEPT !.pages = Append(@, <<"bar">>), !.y = TopY]

\* The rows.forEach of drawTable, on the document whose y is currentY.
RECURSIVE DrawRows(_, _)
DrawRows(doc, n) ==
    IF n = 0 THEN doc
    ELSE LET onPage ==
                 IF doc.y + RowHeight > PageHeight - BottomReserve
                 THEN LET fresh == addNewPage(doc)
                      IN  [Draw(fresh, "head") EXCEPT
                              !.y = fresh.y + RedrawOffset + HeaderHeight]
                 ELSE doc
         IN  DrawRows([Draw(onPage, "row") EXCEPT !.y = onPage.y + RowHeight], n - 1)

drawTable(doc, n) ==
    LET headed == [Draw(doc, "head") EXCEPT !.y = doc.y + HeaderHeight]
        done   == DrawRows(headed, n)
    IN  [done EXCEPT !.y = done.y + LineGap]

\* A section title and the moveDown calls around it.
DrawTitle(doc) == [Draw(doc, "title") EXCEPT !.y = doc.y + SectionGap]

drawFooter(doc) == Draw(doc, "footer")

RECURSIVE CountTitles(_)
CountTitles(ps) ==
    IF ps = <<>> THEN 0
    ELSE Len(SelectSeq(Head(ps), LAMBDA item : item = "title")) + CountTitles(Tail(ps))

InitPdf ==
    /\ tz = 0
    /\ transactions = <<>>
    /\ budgets = <<>>
    /\ accounts = <<>>
    /\ reminders = <<>>
    /\ req = NoRequest
    /\ pc = "idle"
    /\ reportData = NoReport
    /\ res = NoResponse
    /\ queries = <<>>
    /\ rendered = <<>>
    /\ inflight = NoTransfers
    /\ sessions = {}
    /\ users = <<>>
    /\ notifications = <<>>
    /\ now = Epoch
    /\ \E y0 \in FirstTableYs :
          pdf = [y |-> y0, pages |-> << <<"bar", "cards">> >>, ended |-> FALSE]

\* A titled section with a table of n rows, drawn where the last one ended.  The
\* table's header row lies within the printable height; lower down the
\* library breaks pages on its own.
DrawSection ==
    /\ ~pdf.ended
    /\ CountTitles(pdf.pages) < MaxTables
    /\ pdf.y + SectionGap + HeaderHeight <= PageHeight - BottomReserve
    /\ \E n \in 1..MaxRows : pdf' = drawTable(DrawTitle(pdf), n)
    /\ UNCHANGED <<authVars, inflight, tz, transactions, budgets, accounts, reminders, req, pc,
                   reportData, res, queries, rendered>>

\* drawFooter() and pdf.end() at the end of the report.
EndPdf ==
    /\ ~pdf.ended
    /\ pdf' = [drawFooter(pdf) EXCEPT !.ended = TRUE]
    /\ UNCHANGED <<authVars, inflight, tz, transactions, budgets, accounts, reminders, req, pc,
                   reportData, res, queries, rendered>>

NextPdf == DrawSection \/ EndPdf

SpecPdf == InitPdf /\ [][NextPdf]_vars

(***************************************************************************)
(* POST /accounts/transfer.  An account's _id is its position in the       *)
(* collection; 0 stands for a field the body does not have.  Each await of *)
(* the handler ends a step, so requests on two connections interleave at   *)
(* the awaits.                                                             *)
(***************************************************************************)
MaxTransfers == 2

NoId == 0

UserGone == "userGone"

\* The User collection, and the users whose tokens send requests: one who owns
\* two accounts, and one whose document is gone.
TransferUsers == {UserA, UserB}
Requesters    == {UserA, UserGone}

TransferAccounts ==
    <<AccountDoc(UserA, "Cash", 100), AccountDoc(UserB, "Bank", 50),
      AccountDoc(UserA, "Bank", 300)>>

\* Ids a body may carry: none, each account's, and one of no document.
AccountIds == 0..(Len(TransferAccounts) + 1)

Amounts == {Undefined, Num(80), Num(-50), Str(<<"5">>)}

Clock == {NewDateLocalAt(2026, 1, 10, Noon, 0)}

NullDoc == [found |-> FALSE, userId |-> "", balance |-> 0]

findById(coll, id) ==
    IF id \in 1..Len(coll)
    THEN [found |-> TRUE, userId |-> coll[id].userId, balance |-> coll[id].balance]
    ELSE NullDoc

\* A numeric string read as a number: ToNumber, and the cast of the Number path.
CastNumber(cs) == IF cs # <<>> /\ Head(cs) = "-" THEN -StrToNat(Tail(cs)) ELSE StrToNat(cs)

ToNumber(v) == IF v.t = "string" THEN CastNumber(v.s) ELSE v.n

\* fromAccount.balance < amount
Insufficient(balance, amount) == balance < ToNumber(amount)

\* fromAccount.balance -= amount
Debit(balance, amount) == balance - ToNumber(amount)

\* toAccount.balance += amount: + concatenates when amount is a string, and the
\* schema casts the result back to a number when it is assigned.
Credit(balance, amount) ==
    IF amount.t = "string" THEN CastNumber(ToStr(Num(balance)) \o amount.s)
    ELSE balance + amount.n

Save(coll, id, doc) == [coll EXCEPT ![id].balance = doc.balance]

Busy(c) == inflight.at[c].pc # "done"

Quiet == \A c \in Clients : ~Busy(c)

Move(c, slot) == inflight' = [inflight EXCEPT !.at[c] = slot]

InitTransfer ==
    /\ tz = 0
    /\ transactions = <<>>
    /\ budgets = <<>>
    /\ accounts = TransferAccounts
    /\ reminders = <<>>
    /\ req = NoRequest
    /\ pc = "idle"
    /\ reportData = NoReport
    /\ res = NoResponse
    /\ queries = <<>>
    /\ rendered = <<>>
    /\ pdf = NoPdf
    /\ inflight = NoTransfers
    /\ sessions = {}
    /\ users = <<>>
    /\ notifications = <<>>
    /\ now = Epoch

\* The request arrives: the body is validated and the user looked up.  No
\* operation here writes the User collection, so the lookup is taken with the
\* arrival.
PostTransfer(c) ==
    /\ ~Busy(c)
    /\ inflight.sent < MaxTransfers
    /\ \E userId \in Requesters, from \in AccountIds, to \in AccountIds, amount \in Amounts :
          inflight' =
              [sent |-> inflight.sent + 1,
               at |-> [inflight.at EXCEPT ![c] =
                   IF from = NoId \/ to = NoId \/ ~Truthy(amount) THEN Answered(400)
                   ELSE IF userId \notin TransferUsers THEN Answered(404)
                   ELSE [pc |-> "findFrom", userId |-> userId, from |-> from, to |-> to,
                         amount |-> amount, fromAccount |-> NullDoc,
                         toAccount |-> NullDoc]]]
    /\ UNCHANGED <<authVars, pdf, tz, transactions, budgets, accounts, reminders, req, pc, reportData,
                   res, queries, rendered>>

\* const fromAccount = await Account.findById(from)
FindFrom(c) ==
    /\ inflight.at[c].pc = "findFrom"
    /\ Move(c, [inflight.at[c] EXCEPT !.pc = "findTo",
                                      !.fromAccount = findById(accounts, inflight.at[c].from)])
    /\ UNCHANGED <<authVars, pdf, tz, transactions, budgets, accounts, reminders, req, pc, reportData,
                   res, queries, rendered>>

\* const toAccount = await Account.findById(to), then the checks and the two
\* assignments, up to the first save.
FindTo(c) ==
    /\ inflight.at[c].pc = "findTo"
    /\ LET r == inflight.at[c]
           fromAccount == r.fromAccount
           toAccount == findById(accounts, r.to)
       IN  Move(c,
               IF ~fromAccount.found \/ ~toAccount.found THEN Answered(400)
               ELSE IF fromAccount.userId # r.userId \/ toAccount.userId # r.userId
                    THEN Answered(403)
               ELSE IF Insufficient(fromAccount.balance, r.amount) THEN Answered(400)
               ELSE [r EXCEPT !.pc = "saveFrom",
                              !.fromAccount.balance = Debit(fromAccount.balance, r.amount),
                              !.toAccount =
                                  [toAccount EXCEPT
                                      !.balance = Credit(toAccount.balance, r.amount)]])
    /\ UNCHANGED <<authVars, pdf, tz, transactions, budgets, accounts, reminders, req, pc, reportData,
                   res, queries, rendered>>

\* await fromAccount.save()
SaveFrom(c) ==
    /\ inflight.at[c].pc = "saveFrom"
    /\ accounts' = Save(accounts, inflight.at[c].from, inflight.at[c].fromAccount)
    /\ Move(c, [inflight.at[c] EXCEPT !.pc = "saveTo"])
    /\ UNCHANGED <<authVars, pdf, tz, transactions, budgets, reminders, req, pc, reportData, res,
                   queries, rendered>>

\* await toAccount.save()
SaveTo(c) ==
    /\ inflight.at[c].pc = "saveTo"
    /\ accounts' = Save(accounts, inflight.at[c].to, inflight.at[c].toAccount)
    /\ Move(c, [inflight.at[c] EXCEPT !.pc = "create"])
    /\ UNCHANGED <<authVars, pdf, tz, transactions, budgets, reminders, req, pc, reportData, res,
                   queries, rendered>>

\* await Transaction.create(transactionData), then the answer.
CreateTransfer(c) ==
    /\ inflight.at[c].pc = "create"
    /\ \E at \in Clock :
          transactions' =
              Append(transactions,
                     Tx(inflight.at[c].userId, Str(sTransfer), ToNumber(inflight.at[c].amount),
                        Str(sTransfer), at))
    /\ Move(c, Answered(200))
    /\ UNCHANGED <<authVars, pdf, tz, budgets, accounts, reminders, req, pc, reportData, res, queries,
                   rendered>>

\* An awaited operation rejects: the catch block answers 500.
TransferRejects(c) ==
    /\ Busy(c)
    /\ Move(c, Answered(500))
    /\ UNCHANGED <<authVars, pdf, tz, transactions, budgets, accounts, reminders, req, pc, reportData,
                   res, queries, rendered>>

NextTransfer ==
    \E c \in Clients :
        \/ PostTransfer(c)
        \/ FindFrom(c)
        \/ FindTo(c)
        \/ SaveFrom(c)
        \/ SaveTo(c)
        \/ CreateTransfer(c)
        \/ TransferRejects(c)

SpecTransfer == InitTransfer /\ [][NextTransfer]_vars

(***************************************************************************)
(* Sessions: the auth middleware, POST /auth/login and the logout routes,  *)
(* for one user.  A sessionId is the number of the login request that drew *)
(* it (16 random bytes do not repeat), and a token is the sessionId it     *)
(* carries; 0 stands for a missing token or one that jwt.verify refuses.   *)
(***************************************************************************)
MaxRequests == 3

NoToken == 0

SessionDoc(sessionId, userId) == [sessionId |-> sessionId, userId |-> userId]

UserDoc(password, securityAnswer, embedded) ==
    [password |-> password, securityAnswer |-> securityAnswer, sessions |-> embedded]

SessionUsers == [u \in {UserA} |-> UserDoc("secret1", "blue", <<>>)]

Passwords == {"secret1", "guess"}

AuthedRoutes == {"me", "logoutMe", "logoutOne", "logoutAll"}

SessionIds(coll, userId) == { doc.sessionId : doc \in { d \in coll : d.userId = userId } }

\* A session lookup that trusts the token and never reads the collection.
SessionFoundAlways(coll, sessionId, userId) == TRUE

\* Session.findOne({ sessionId, userId: id })
SessionFound(coll, sessionId, userId) == SessionDoc(sessionId, userId) \in coll

\* $pull: { sessions: { sessionId } }
Pull(embedded, sessionId) == SelectSeq(embedded, LAMBDA id : id # sessionId)

NoSessionRequests == [sent |-> 0, at |-> [c \in Clients |-> Answered(0)], tokens |-> {}]

InitSession ==
    /\ tz = 0
    /\ transactions = <<>>
    /\ budgets = <<>>
    /\ accounts = <<>>
    /\ reminders = <<>>
    /\ req = NoRequest
    /\ pc = "idle"
    /\ reportData = NoReport
    /\ res = NoResponse
    /\ queries = <<>>
    /\ rendered = <<>>
    /\ pdf = NoPdf
    /\ inflight = NoSessionRequests
    /\ sessions = {}
    /\ users = SessionUsers
    /\ notifications = <<>>
    /\ now = Epoch

Send(c, slot) ==
    inflight' = [inflight EXCEPT !.sent = @ + 1, !.at[c] = slot]

\* POST /auth/login arrives with both fields.
PostLogin(c) ==
    /\ ~Busy(c)
    /\ inflight.sent < MaxRequests
    /\ \E username \in {UserA, UserGone}, password \in Passwords :
          Send(c, [pc |-> "findUser", route |-> "login", userId |-> username,
                   password |-> password, token |-> NoToken,
                   sessionId |-> inflight.sent + 1, stale |-> FALSE])
    /\ UNCHANGED <<sessions, users, notifications, now, reportVars, transactions, accounts>>

\* await User.findOne({ username }) and await user.matchPassword(password)
FindUser(c) ==
    /\ inflight.at[c].pc = "findUser"
    /\ LET r == inflight.at[c]
       IN  Move(c, IF r.userId \notin DOMAIN users THEN Answered(401)
                   ELSE IF users[r.userId].password # r.password THEN Answered(401)
                   ELSE [r EXCEPT !.pc = "saveSession"])
    /\ UNCHANGED <<sessions, users, notifications, now, reportVars, transactions, accounts>>

\* await session.save()
SaveSession(c) ==
    /\ inflight.at[c].pc = "saveSession"
    /\ sessions' = sessions \cup {SessionDoc(inflight.at[c].sessionId, inflight.at[c].userId)}
    /\ Move(c, [inflight.at[c] EXCEPT !.pc = "pushSession"])
    /\ UNCHANGED <<users, notifications, now, reportVars, transactions, accounts>>

\* user.sessions.push(...); await user.save(): the array change is sent as $push.
PushSession(c) ==
    /\ inflight.at[c].pc = "pushSession"
    /\ users' = [users EXCEPT ![inflight.at[c].userId].sessions =
                                Append(@, inflight.at[c].sessionId)]
    /\ Move(c, [inflight.at[c] EXCEPT !.pc = "summary"])
    /\ UNCHANGED <<sessions, notifications, now, reportVars, transactions, accounts>>

SummaryNote(userId) ==
    [userId |-> userId, type |-> "monthly_summary", title |-> "Monthly summary", body |-> ""]

\* The token is signed; the monthly summary block creates its notification
\* unless one exists, or throws and is only logged; then the answer.
FinishLogin(c) ==
    /\ inflight.at[c].pc = "summary"
    /\ \E threw \in BOOLEAN :
          notifications' =
              IF threw \/ \E i \in 1..Len(notifications) :
                              notifications[i] = SummaryNote(inflight.at[c].userId)
              THEN notifications
              ELSE Append(notifications, SummaryNote(inflight.at[c].userId))
    /\ inflight' = [inflight EXCEPT !.at[c] = Answered(200),
                                    !.tokens = @ \cup {inflight.at[c].sessionId}]
    /\ UNCHANGED <<sessions, users, now, reportVars, transactions, accounts>>

\* A request of a protected route arrives with a token once issued, or none.
\* stale records that the token's session was gone before the request came.
Arrive(c) ==
    /\ ~Busy(c)
    /\ inflight.sent < MaxRequests
    /\ \E route \in AuthedRoutes, token \in inflight.tokens \cup {NoToken},
          param \in inflight.tokens \cup {NoToken} :
          /\ (route = "logoutOne") = (param # NoToken)
          /\ Send(c, IF token = NoToken THEN Answered(401)
                     ELSE [pc |-> "authFind", route |-> route, userId |-> UserA,
                           password |-> "", token |-> token,
                           sessionId |-> IF route = "logoutOne" THEN param ELSE token,
                           stale |-> SessionDoc(token, UserA) \notin sessions])
    /\ UNCHANGED <<sessions, users, notifications, now, reportVars, transactions, accounts>>

\* const session = await Session.findOne({ sessionId, userId: id })
AuthFind(c) ==
    /\ inflight.at[c].pc = "authFind"
    /\ Move(c, IF SessionFound(sessions, inflight.at[c].token, inflight.at[c].userId)
               THEN [inflight.at[c] EXCEPT !.pc = "authSave"]
               ELSE Answered(401))
    /\ UNCHANGED <<sessions, users, notifications, now, reportVars, transactions, accounts>>

FirstStep(route) ==
    CASE route = "me" -> "handler"
      [] route = "logoutAll" -> "deleteMany"
      [] OTHER -> "deleteOne"

\* await session.save() and the update of the embedded lastActiveAt, then
\* next().  When the session was deleted since the lookup, the save matches no
\* document: it either throws (answered 401) or is ignored, by the library's
\* version.  It never inserts.
AuthSave(c) ==
    /\ inflight.at[c].pc = "authSave"
    /\ \E throws \in BOOLEAN :
          Move(c, IF ~SessionFound(sessions, inflight.at[c].token, inflight.at[c].userId)
                     /\ throws
                  THEN Answered(401)
                  ELSE [inflight.at[c] EXCEPT !.pc = FirstStep(inflight.at[c].route)])
    /\ UNCHANGED <<sessions, users, notifications, now, reportVars, transactions, accounts>>

\* GET /auth/me
Handler(c) ==
    /\ inflight.at[c].pc = "handler"
    /\ Move(c, Answered(200))
    /\ UNCHANGED <<sessions, users, notifications, now, reportVars, transactions, accounts>>

\* await Session.deleteOne({ sessionId, userId })
DeleteOne(c) ==
    /\ inflight.at[c].pc = "deleteOne"
    /\ sessions' = sessions \ {SessionDoc(inflight.at[c].sessionId, inflight.at[c].userId)}
    /\ Move(c, [inflight.at[c] EXCEPT !.pc = "pull"])
    /\ UNCHANGED <<users, notifications, now, reportVars, transactions, accounts>>

\* await User.updateOne({ _id: userId }, { $pull: { sessions: { sessionId } } })
PullSession(c) ==
    /\ inflight.at[c].pc = "pull"
    /\ users' = [users EXCEPT ![inflight.at[c].userId].sessions =
                                Pull(@, inflight.at[c].sessionId)]
    /\ Move(c, Answered(200))
    /\ UNCHANGED <<sessions, notifications, now, reportVars, transactions, accounts>>

\* await Session.deleteMany({ userId })
DeleteMany(c) ==
    /\ inflight.at[c].pc = "deleteMany"
    /\ sessions' = { doc \in sessions : doc.userId # inflight.at[c].userId }
    /\ Move(c, [inflight.at[c] EXCEPT !.pc = "clear"])
    /\ UNCHANGED <<users, notifications, now, reportVars, transactions, accounts>>

\* await User.updateOne({ _id: userId }, { $set: { sessions: [] } })
ClearSessions(c) ==
    /\ inflight.at[c].pc = "clear"
    /\ users' = [users EXCEPT ![inflight.at[c].userId].sessions = <<>>]
    /\ Move(c, Answered(200))
    /\ UNCHANGED <<sessions, notifications, now, reportVars, transactions, accounts>>

\* An awaited operation rejects: 401 from the middleware's catch, 500 from a
\* handler's.
SessionRejects(c) ==
    /\ Busy(c)
    /\ Move(c, IF inflight.at[c].pc \in {"authFind", "authSave"} THEN Answered(401)
               ELSE Answered(500))
    /\ UNCHANGED <<sessions, users, notifications, now, reportVars, transactions, accounts>>

NextSession ==
    \E c \in Clients :
        \/ PostLogin(c)
        \/ FindUser(c)
        \/ SaveSession(c)
        \/ PushSession(c)
        \/ FinishLogin(c)
        \/ Arrive(c)
        \/ AuthFind(c)
        \/ AuthSave(c)
        \/ Handler(c)
        \/ DeleteOne(c)
        \/ PullSession(c)
        \/ DeleteMany(c)
        \/ ClearSessions(c)
        \/ SessionRejects(c)

SpecSession == InitSession /\ [][NextSession]_vars

(***************************************************************************)
(* Password reset: POST /auth/verify-security and POST /auth/reset-password. *)
(* The password field holds the password the stored hash matches.  verified *)
(* records the usernames whose security answer was accepted so far.        *)
(***************************************************************************)
sBlue    == <<"b", "l", "u", "e">>
sBlueCap == <<" ", "B", "l", "u", "e">>
sGreen   == <<"g", "r", "e", "e", "n">>
sOldPass == <<"s", "e", "c", "r", "e", "t", "1">>
sNewPass == <<"h", "i", "j", "a", "c", "k", "2">>
sShort   == <<"a", "b", "c">>

RECURSIVE TrimStart(_)
TrimStart(cs) == IF cs # <<>> /\ Head(cs) = " " THEN TrimStart(Tail(cs)) ELSE cs

RECURSIVE TrimEnd(_)
TrimEnd(cs) ==
    IF cs # <<>> /\ cs[Len(cs)] = " " THEN TrimEnd(SubSeq(cs, 1, Len(cs) - 1)) ELSE cs

Trim(cs) == TrimEnd(TrimStart(cs))

MinPasswordLength == 6

ResetUsers == [u \in {UserA} |-> UserDoc(sOldPass, sBlue, <<>>)]

NoResetRequests == [sent |-> 0, at |-> [c \in Clients |-> Answered(0)], verified |-> {}]

InitReset ==
    /\ tz = 0
    /\ transactions = <<>>
    /\ budgets = <<>>
    /\ accounts = <<>>
    /\ reminders = <<>>
    /\ req = NoRequest
    /\ pc = "idle"
    /\ reportData = NoReport
    /\ res = NoResponse
    /\ queries = <<>>
    /\ rendered = <<>>
    /\ pdf = NoPdf
    /\ inflight = NoResetRequests
    /\ sessions = {}
    /\ users = ResetUsers
    /\ notifications = <<>>
    /\ now = Epoch

\* POST /auth/verify-security arrives.
PostVerifySecurity(c) ==
    /\ ~Busy(c)
    /\ inflight.sent < MaxRequests
    /\ \E username \in {UserA, UserGone}, securityAnswer \in {<<>>, sBlueCap, sGreen} :
          Send(c, IF securityAnswer = <<>> THEN Answered(400)
                  ELSE [pc |-> "verifyFind", username |-> username,
                        securityAnswer |-> securityAnswer, newPassword |-> <<>>])
    /\ UNCHANGED <<sessions, users, notifications, now, reportVars, transactions, accounts>>

\* await User.findOne({ username }), the comparison and the answer.
VerifyFind(c) ==
    /\ inflight.at[c].pc = "verifyFind"
    /\ LET r == inflight.at[c]
           statusCode ==
               IF r.username \notin DOMAIN users THEN 404
               ELSE IF users[r.username].securityAnswer # Trim(ToLower(r.securityAnswer))
                    THEN 401
               ELSE 200
       IN  inflight' = [inflight EXCEPT
                           !.at[c] = Answered(statusCode),
                           !.verified = IF statusCode = 200 THEN @ \cup {r.username} ELSE @]
    /\ UNCHANGED <<sessions, users, notifications, now, reportVars, transactions, accounts>>

\* POST /auth/reset-password arrives: the three tests of the body.
PostResetPassword(c) ==
    /\ ~Busy(c)
    /\ inflight.sent < MaxRequests
    /\ \E username \in {UserA, UserGone}, newPassword \in {sNewPass, sShort},
          confirmPassword \in {<<>>, sNewPass, sShort} :
          Send(c, IF confirmPassword = <<>> THEN Answered(400)
                  ELSE IF newPassword # confirmPassword THEN Answered(400)
                  ELSE IF Len(newPassword) < MinPasswordLength THEN Answered(400)
                  ELSE [pc |-> "resetFind", username |-> username,
                        securityAnswer |-> <<>>, newPassword |-> newPassword])
    /\ UNCHANGED <<sessions, users, notifications, now, reportVars, transactions, accounts>>

\* const user = await User.findOne({ username })
ResetFind(c) ==
    /\ inflight.at[c].pc = "resetFind"
    /\ Move(c, IF inflight.at[c].username \in DOMAIN users
               THEN [inflight.at[c] EXCEPT !.pc = "resetSave"]
               ELSE Answered(404))
    /\ UNCHANGED <<sessions, users, notifications, now, reportVars, transactions, accounts>>

\* user.password = newPassword; await user.save()
ResetSave(c) ==
    /\ inflight.at[c].pc = "resetSave"
    /\ users' = [users EXCEPT ![inflight.at[c].username].password = inflight.at[c].newPassword]
    /\ Move(c, Answered(200))
    /\ UNCHANGED <<sessions, notifications, now, reportVars, transactions, accounts>>

ResetRejects(c) ==
    /\ Busy(c)
    /\ Move(c, Answered(500))
    /\ UNCHANGED <<sessions, users, notifications, now, reportVars, transactions, accounts>>

NextReset ==
    \E c \in Clients :
        \/ PostVerifySecurity(c)
        \/ VerifyFind(c)
        \/ PostResetPassword(c)
        \/ ResetFind(c)
        \/ ResetSave(c)
        \/ ResetRejects(c)

SpecReset == InitReset /\ [][NextReset]_vars

(***************************************************************************)
(* POST /notifications, for requests the middleware has let through.  The  *)
(* Notification schema is not among the sources: a save is taken to insert *)
(* the document, with no index that refuses a second one.                  *)
(***************************************************************************)
sRentDue == <<"R", "e", "n", "t">>
sPayNow  == <<"P", "a", "y">>
sInfo    == <<"i", "n", "f", "o">>

NotificationDoc(userId, title, body, type) ==
    [userId |-> userId, title |-> title, body |-> body, type |-> type]

\* body || '' and type || 'info'
OrDefault(v, cs) == IF Truthy(v) THEN ToStr(v) ELSE cs

\* Notification.findOne({ userId, title, body })
FindNotification(coll, userId, title, body) ==
    \E i \in 1..Len(coll) :
        coll[i].userId = userId /\ coll[i].title = title /\ coll[i].body = body

InsertNotification(coll, doc) == Append(coll, doc)

InitNotify ==
    /\ tz = 0
    /\ transactions = <<>>
    /\ budgets = <<>>
    /\ accounts = <<>>
    /\ reminders = <<>>
    /\ req = NoRequest
    /\ pc = "idle"
    /\ reportData = NoReport
    /\ res = NoResponse
    /\ queries = <<>>
    /\ rendered = <<>>
    /\ pdf = NoPdf
    /\ inflight = NoTransfers
    /\ sessions = {}
    /\ users = <<>>
    /\ notifications \in {<<>>, <<NotificationDoc(UserB, sRentDue, <<>>, sInfo)>>}
    /\ now = Epoch

\* The handler starts: title is tested.
PostNotification(c) ==
    /\ ~Busy(c)
    /\ inflight.sent < MaxRequests
    /\ \E userId \in {UserA, UserB}, title \in {Undefined, Str(sRentDue)},
          body \in {Undefined, Str(sPayNow)} :
          Send(c, IF ~Truthy(title) THEN Answered(400)
                  ELSE [pc |-> "findExisting", userId |-> userId, title |-> ToStr(title),
                        body |-> OrDefault(body, <<>>), type |-> OrDefault(Undefined, sInfo)])
    /\ UNCHANGED <<sessions, users, notifications, now, reportVars, transactions, accounts>>

\* const existing = await Notification.findOne(...): answered with the existing
\* one and duplicated: true, or on to the save.
FindExisting(c) ==
    /\ inflight.at[c].pc = "findExisting"
    /\ LET r == inflight.at[c]
       IN  Move(c, IF FindNotification(notifications, r.userId, r.title, r.body)
                   THEN Answered(200)
                   ELSE [r EXCEPT !.pc = "saveNote"])
    /\ UNCHANGED <<sessions, users, notifications, now, reportVars, transactions, accounts>>

\* await note.save()
SaveNote(c) ==
    /\ inflight.at[c].pc = "saveNote"
    /\ LET r == inflight.at[c]
       IN  notifications' =
               InsertNotification(notifications,
                                  NotificationDoc(r.userId, r.title, r.body, r.type))
    /\ Move(c, Answered(200))
    /\ UNCHANGED <<sessions, users, now, reportVars, transactions, accounts>>

NotifyRejects(c) ==
    /\ Busy(c)
    /\ Move(c, Answered(500))
    /\ UNCHANGED <<sessions, users, notifications, now, reportVars, transactions, accounts>>

NextNotify ==
    \E c \in Clients :
        \/ PostNotification(c)
        \/ FindExisting(c)
        \/ SaveNote(c)
        \/ NotifyRejects(c)

SpecNotify == InitNotify /\ [][NextNotify]_vars

(***************************************************************************)
(* PUT and DELETE of /transactions/:id and /accounts/:id, for requests the *)
(* middleware has let through as user A.  Documents carry their _id; id 0  *)
(* is a path parameter that is no ObjectId.  The clock moves between       *)
(* requests, in steps of six hours: a request is short against them.       *)
(***************************************************************************)
MaxTicks == 4

NoOwner == ""

EditWindowHours == 12

MsPerHour == 60 * MsPerMinute

TickMs == 6 * MsPerHour

MsBetween(later, earlier) == (later.day - earlier.day) * MsPerDay + (later.ms - earlier.ms)

\* hoursDiff > 12, with hoursDiff = (Date.now() - new Date(transaction.date)) / 3600000
EditExpired(clock, date) == MsBetween(clock, date) > EditWindowHours * MsPerHour

StoredTx(id, userId, amount, date, createdAt) ==
    [id |-> id, userId |-> userId, type |-> Str(sExpense), amount |-> amount,
     category |-> Str(sFood), date |-> date, createdAt |-> createdAt]

StoredAccount(id, userId, name, balance) ==
    [id |-> id, userId |-> userId, name |-> name, balance |-> balance]

EditTransactions ==
    <<StoredTx(1, UserA, 100, Epoch, Epoch), StoredTx(2, UserB, 100, Epoch, Epoch)>>

EditAccounts == <<StoredAccount(1, UserA, "Cash", 100), StoredAccount(2, UserB, "Bank", 50)>>

DocIds == 0..3

IdValue(userId) == Str(<<userId>>)

\* A PUT body: userId as a plain key, userId under $set, date and amount; a key
\* the body does not have is undefined.
EditBody(userId, setUserId, date, amount) ==
    [userId |-> userId, setUserId |-> setUserId, date |-> date, amount |-> amount]

EditBodies ==
    { EditBody(Undefined, Undefined, "absent", Num(999)),
      EditBody(Undefined, Undefined, "now", Undefined),
      EditBody(IdValue(UserB), Undefined, "absent", Num(999)),
      EditBody(Null, Undefined, "absent", Undefined),
      EditBody(Undefined, IdValue(UserB), "absent", Undefined) }

HasId(coll, id) == \E i \in 1..Len(coll) : coll[i].id = id

ById(coll, id) == coll[CHOOSE i \in 1..Len(coll) : coll[i].id = id]

\* if (req.body.userId) delete req.body.userId
DropOwner(body) == IF Truthy(body.userId) THEN [body EXCEPT !.userId = Undefined] ELSE body

\* The owner the update writes: a userId key that is left (null) or, without
\* one, the key under $set.
OwnerAfter(doc, body) ==
    CASE body.userId.t = "null" -> NoOwner
      [] body.userId.t = "string" -> body.userId.s[1]
      [] body.setUserId.t = "string" -> body.setUserId.s[1]
      [] OTHER -> doc.userId

\* Transaction.findByIdAndUpdate(req.params.id, req.body, { new: true })
ApplyUpdate(doc, body, clock) ==
    [doc EXCEPT !.userId = OwnerAfter(doc, body),
                !.date = IF body.date = "now" THEN clock ELSE @,
                !.amount = IF body.amount.t = "number" THEN body.amount.n ELSE @]

UpdateById(coll, id, body, clock) ==
    [i \in 1..Len(coll) |-> IF coll[i].id = id THEN ApplyUpdate(coll[i], body, clock)
                            ELSE coll[i]]

DeleteById(coll, id) == SelectSeq(coll, LAMBDA doc : doc.id # id)

\* name, and balance through parseFloat, when the body has them.
AssignAccount(doc, name, balance) ==
    [doc EXCEPT !.name = IF name # "" THEN name ELSE @,
                !.balance = IF balance.t = "number" THEN balance.n ELSE @]

\* account.save(): the fields set on the loaded document are written to the
\* stored one, if it is still there.
SaveAccount(coll, doc) ==
    [i \in 1..Len(coll) |-> IF coll[i].id = doc.id
                            THEN [coll[i] EXCEPT !.name = doc.name, !.balance = doc.balance]
                            ELSE coll[i]]

NoEditRequests == [sent |-> 0, at |-> [c \in Clients |-> Answered(0)], ticks |-> 0]

InitEdit ==
    /\ tz = 0
    /\ transactions = EditTransactions
    /\ budgets = <<>>
    /\ accounts = EditAccounts
    /\ reminders = <<>>
    /\ req = NoRequest
    /\ pc = "idle"
    /\ reportData = NoReport
    /\ res = NoResponse
    /\ queries = <<>>
    /\ rendered = <<>>
    /\ pdf = NoPdf
    /\ inflight = NoEditRequests
    /\ sessions = {}
    /\ users = <<>>
    /\ notifications = <<>>
    /\ now = Epoch

Tick ==
    /\ Quiet
    /\ inflight.ticks < MaxTicks
    /\ now' = MakeDate(now.day, now.ms + TickMs)
    /\ inflight' = [inflight EXCEPT !.ticks = @ + 1]
    /\ UNCHANGED <<sessions, users, notifications, reportVars, transactions, accounts>>

\* PUT /transactions/:id arrives.
PutTransaction(c) ==
    /\ ~Busy(c)
    /\ inflight.sent < MaxRequests
    /\ \E id \in DocIds, body \in EditBodies :
          Send(c, [pc |-> "putFind", userId |-> UserA, id |-> id, body |-> body,
                   doc |-> NullDoc])
    /\ UNCHANGED <<sessions, users, notifications, now, reportVars, transactions, accounts>>

\* await Transaction.findById(req.params.id) and the three tests; an id that is
\* no ObjectId makes the query throw.
PutFind(c) ==
    /\ inflight.at[c].pc = "putFind"
    /\ LET r == inflight.at[c]
       IN  Move(c, IF r.id = 0 THEN Answered(500)
                   ELSE IF ~HasId(transactions, r.id) THEN Answered(404)
                   ELSE IF ById(transactions, r.id).userId # r.userId THEN Answered(403)
                   ELSE IF EditExpired(now, ById(transactions, r.id).date) THEN Answered(403)
                   ELSE [r EXCEPT !.pc = "putUpdate", !.body = DropOwner(r.body)])
    /\ UNCHANGED <<sessions, users, notifications, now, reportVars, transactions, accounts>>

\* await Transaction.findByIdAndUpdate(...); res.json(updated)
PutUpdate(c) ==
    /\ inflight.at[c].pc = "putUpdate"
    /\ transactions' = UpdateById(transactions, inflight.at[c].id, inflight.at[c].body, now)
    /\ Move(c, Answered(200))
    /\ UNCHANGED <<sessions, users, notifications, now, reportVars, accounts>>

\* DELETE /transactions/:id arrives.
DeleteTransaction(c) ==
    /\ ~Busy(c)
    /\ inflight.sent < MaxRequests
    /\ \E id \in DocIds :
          Send(c, [pc |-> "deleteFind", userId |-> UserA, id |-> id,
                   body |-> EditBody(Undefined, Undefined, "absent", Undefined),
                   doc |-> NullDoc])
    /\ UNCHANGED <<sessions, users, notifications, now, reportVars, transactions, accounts>>

DeleteFind(c) ==
    /\ inflight.at[c].pc = "deleteFind"
    /\ LET r == inflight.at[c]
       IN  Move(c, IF r.id = 0 THEN Answered(500)
                   ELSE IF ~HasId(transactions, r.id) THEN Answered(404)
                   ELSE IF ById(transactions, r.id).userId # r.userId THEN Answered(403)
                   ELSE [r EXCEPT !.pc = "deleteTx"])
    /\ UNCHANGED <<sessions, users, notifications, now, reportVars, transactions, accounts>>

\* await Transaction.findByIdAndDelete(req.params.id)
DeleteTx(c) ==
    /\ inflight.at[c].pc = "deleteTx"
    /\ transactions' = DeleteById(transactions, inflight.at[c].id)
    /\ Move(c, Answered(200))
    /\ UNCHANGED <<sessions, users, notifications, now, reportVars, accounts>>

\* PUT /accounts/:id arrives: the id's format is tested.
PutAccount(c) ==
    /\ ~Busy(c)
    /\ inflight.sent < MaxRequests
    /\ \E id \in DocIds, name \in {"", "Mine"}, balance \in {Undefined, Num(7)} :
          Send(c, IF id = 0 THEN Answered(400)
                  ELSE [pc |-> "accountFind", userId |-> UserA, id |-> id,
                        body |-> [name |-> name, balance |-> balance], doc |-> NullDoc])
    /\ UNCHANGED <<sessions, users, notifications, now, reportVars, transactions, accounts>>

\* await Account.findById(id), the owner test and the assignments.
AccountFind(c) ==
    /\ inflight.at[c].pc = "accountFind"
    /\ LET r == inflight.at[c]
       IN  Move(c, IF ~HasId(accounts, r.id) THEN Answered(404)
                   ELSE IF ById(accounts, r.id).userId # r.userId THEN Answered(403)
                   ELSE [r EXCEPT !.pc = "accountSave",
                                  !.doc = AssignAccount(ById(accounts, r.id), r.body.name,
                                                        r.body.balance)])
    /\ UNCHANGED <<sessions, users, notifications, now, reportVars, transactions, accounts>>

\* await account.save()
AccountSave(c) ==
    /\ inflight.at[c].pc = "accountSave"
    /\ accounts' = SaveAccount(accounts, inflight.at[c].doc)
    /\ \E throws \in BOOLEAN :
          Move(c, IF ~HasId(accounts, inflight.at[c].id) /\ throws THEN Answered(500)
                  ELSE Answered(200))
    /\ UNCHANGED <<sessions, users, notifications, now, reportVars, transactions>>

\* DELETE /accounts/:id arrives.
DeleteAccount(c) ==
    /\ ~Busy(c)
    /\ inflight.sent < MaxRequests
    /\ \E id \in DocIds :
          Send(c, IF id = 0 THEN Answered(400)
                  ELSE [pc |-> "accountDeleteFind", userId |-> UserA, id |-> id,
                        body |-> [name |-> "", balance |-> Undefined], doc |-> NullDoc])
    /\ UNCHANGED <<sessions, users, notifications, now, reportVars, transactions, accounts>>

AccountDeleteFind(c) ==
    /\ inflight.at[c].pc = "accountDeleteFind"
    /\ LET r == inflight.at[c]
       IN  Move(c, IF ~HasId(accounts, r.id) THEN Answered(404)
                   ELSE IF ById(accounts, r.id).userId # r.userId THEN Answered(403)
                   ELSE [r EXCEPT !.pc = "accountDelete"])
    /\ UNCHANGED <<sessions, users, notifications, now, reportVars, transactions, accounts>>

\* await Account.findByIdAndDelete(id): 404 when it is gone by now.
AccountDelete(c) ==
    /\ inflight.at[c].pc = "accountDelete"
    /\ accounts' = DeleteById(accounts, inflight.at[c].id)
    /\ Move(c, IF HasId(accounts, inflight.at[c].id) THEN Answered(200) ELSE Answered(404))
    /\ UNCHANGED <<sessions, users, notifications, now, reportVars, transactions>>

EditRejects(c) ==
    /\ Busy(c)
    /\ Move(c, Answered(500))
    /\ UNCHANGED <<sessions, users, notifications, now, reportVars, transactions, accounts>>

NextEdit ==
    \/ Tick
    \/ \E c \in Clients :
          \/ PutTransaction(c)
          \/ PutFind(c)
          \/ PutUpdate(c)
          \/ DeleteTransaction(c)
          \/ DeleteFind(c)
          \/ DeleteTx(c)
          \/ PutAccount(c)
          \/ AccountFind(c)
          \/ AccountSave(c)
          \/ DeleteAccount(c)
          \/ AccountDeleteFind(c)
          \/ AccountDelete(c)
          \/ EditRejects(c)

SpecEdit == InitEdit /\ [][NextEdit]_vars

(***************************************************************************)
(* Bill reminders: POST /reminders stores a reminder under the fields of   *)
(* reminderSchema, and the three FullAccount generators list the user's    *)
(* reminders.                                                              *)
(***************************************************************************)
MaxPosts == 2

PdfReminderRows   == 10
ExcelReminderRows == 20
CsvReminderRows   == 20

sWater   == <<"W", "a", "t", "e", "r">>
sUnnamed == <<"U", "n", "n", "a", "m", "e", "d">>
sPending == <<"P", "e", "n", "d", "i", "n", "g">>

\* reminder[key]: a path the schema does not declare is undefined on the document.
Prop(doc, key) == IF key \in DOMAIN doc THEN doc[key] ELSE Undefined

\* arr.slice(0, n)
Slice(arr, n) == SubSeq(arr, 1, IF Len(arr) < n THEN Len(arr) ELSE n)

\* One row of a "Bill Reminders" table.
ReminderRow(reminder) ==
    [label  |-> OrDefault(Prop(reminder, "title"), sUnnamed),
     amount |-> reminder.amount,
     status |-> OrDefault(Prop(reminder, "status"), sPending)]

ReminderRows(rd, limit) ==
    LET shown == Slice(rd.reminders, limit)
    IN  [i \in 1..Len(shown) |-> ReminderRow(shown[i])]

PDFReminders(rd)   == ReminderRows(rd, PdfReminderRows)
ExcelReminders(rd) == ReminderRows(rd, ExcelReminderRows)
CSVReminders(rd)   == ReminderRows(rd, CsvReminderRows)

\* n reminders of user A, as n accepted POST /reminders leave them.
ReminderStore(n) ==
    [i \in 1..n |-> ReminderDoc(UserA, <<"r">> \o NatToStr(i), 100 + i, DateParse(sFeb28))]

ReminderNames == {Undefined, Str(<<>>), Str(sRent), Str(sWater)}

InitReminder ==
    /\ tz = 0
    /\ transactions = <<>>
    /\ budgets = <<>>
    /\ accounts = <<>>
    /\ reminders \in { ReminderStore(n) : n \in {0, PdfReminderRows - 1, ExcelReminderRows - 1} }
    /\ req = NoRequest
    /\ pc = "idle"
    /\ reportData = NoReport
    /\ res = NoResponse
    /\ queries = <<>>
    /\ rendered = <<>>
    /\ pdf = NoPdf
    /\ inflight = NoTransfers
    /\ sessions = {}
    /\ users = <<>>
    /\ notifications = <<>>
    /\ now = Epoch

\* POST /reminders
PostReminder ==
    /\ inflight.sent < MaxPosts
    /\ inflight' = [inflight EXCEPT !.sent = @ + 1]
    /\ \E userId \in {UserA, UserB}, name \in ReminderNames, amount \in {Num(0), Num(500)},
          dueDate \in {Undefined, Str(sFeb28)} :
          IF ~Truthy(name) \/ ~Truthy(amount) \/ ~Truthy(dueDate)
          THEN /\ res' = Json(NoResponse, 400, "name, amount, dueDate required")
               /\ UNCHANGED reminders
          ELSE /\ reminders' = Append(reminders,
                                      ReminderDoc(userId, name.s, amount.n, DateParse(dueDate.s)))
               /\ res' = Json(NoResponse, 200, "")
    /\ UNCHANGED <<authVars, pdf, tz, transactions, budgets, accounts, req, pc, reportData,
                   queries, rendered>>

\* POST /reports/fullaccount in one of the three formats; only the reminder
\* table of the output is kept.
ReportReminders ==
    /\ \E format \in {sPdf, sExcel, sCsv} :
          LET rd == getFullAccountReportData(transactions, budgets, accounts, reminders, tz,
                                             UserA, Null, Null)
          IN  /\ reportData' = rd
              /\ rendered' = [format |-> format,
                              rows |-> CASE format = sPdf   -> PDFReminders(rd)
                                         [] format = sExcel -> ExcelReminders(rd)
                                         [] OTHER           -> CSVReminders(rd)]
    /\ UNCHANGED <<authVars, inflight, pdf, tz, transactions, budgets, accounts, reminders, req,
                   pc, res, queries>>

NextReminder == PostReminder \/ ReportReminders

SpecReminder == InitReminder /\ [][NextReminder]_vars

(***************************************************************************)
(* Properties                                                              *)
(***************************************************************************)
Range(f) == { f[i] : i \in DOMAIN f }

RECURSIVE SumValues(_)
SumValues(es) == IF es = <<>> THEN 0 ELSE Head(es).v + SumValues(Tail(es))

\* The category mapping a report carries, and the records that were grouped.
HasCategoryMapping == reportData.kind \in {"monthly", "budget", "fullAccount"}

CategoryMapping ==
    CASE reportData.kind = "monthly" -> reportData.categories
      [] reportData.kind = "budget" -> reportData.expensesByCategory
      [] OTHER -> reportData.categoryWiseSummary

GroupedRecords ==
    IF reportData.kind = "budget" THEN reportData.expenses
    ELSE SelectSeq(reportData.transactions,
                   LAMBDA tx : ~TestIncome(tx.type) /\ TestExpense(tx.type))

DistinctCategories == { ToStr(tx.category) : tx \in Range(GroupedRecords) }

C2_SavingsIsIncomeMinusExpense ==
    /\ reportData.kind \in {"monthly", "dateRange", "budget"} =>
          reportData.savings = reportData.totalIncome - reportData.totalExpense
    /\ reportData.kind = "fullAccount" =>
          reportData.netBalance = reportData.totalIncome - reportData.totalExpense

C2_Witness ==
    /\ reportData.kind = "monthly"
    /\ reportData.totalIncome > 0
    /\ reportData.totalExpense > reportData.totalIncome
    /\ reportData.savings < 0

FirstSeen(key) ==
    CHOOSE i \in 1..Len(GroupedRecords) :
        /\ ToStr(GroupedRecords[i].category) = key
        /\ \A j \in 1..(i - 1) : ToStr(GroupedRecords[j].category) # key

\* C3: a category mapping iterated in its own key order has non-increasing
\* amounts, and categories with equal amounts come in first-seen order.
C3_MappingOrdered ==
    HasCategoryMapping =>
        LET es == ObjectEntries(CategoryMapping)
        IN  \A i, j \in 1..Len(es) :
               i < j =>
                  /\ es[i].v >= es[j].v
                  /\ (es[i].v = es[j].v => FirstSeen(es[i].k) < FirstSeen(es[j].k))

\* The records of the user whose local calendar day lies in the month.
InMonth(tx, month, year, zone) ==
    LET d == LocalTime(tx.date, zone).day
    IN  MakeDay(year, month - 1, 1) <= d /\ d < MakeDay(year, month, 1)

FetchedRecords ==
    IF reportData.kind = "budget" THEN reportData.allTransactions
    ELSE reportData.transactions

\* C5: the Monthly and the Budget report fetch exactly the user's records dated
\* on a calendar day of the month, whatever the time of day.
C5_MonthWindow ==
    reportData.kind \in {"monthly", "budget"} =>
        Range(FetchedRecords) =
            { tx \in Range(transactions) :
                 /\ tx.userId = UserA
                 /\ InMonth(tx, req.body.month.n, req.body.year.n, tz) }

\* The local calendar day a date string names.
NamedDay(cs) ==
    MakeDay(StrToNat(SubSeq(cs, 1, 4)), StrToNat(SubSeq(cs, 6, 7)) - 1,
            StrToNat(SubSeq(cs, 9, 10)))

\* C6: the DateRange report fetches exactly the user's records dated from
\* fromDate 00:00:00.000 to toDate 23:59:59.999.
C6_RangeWindow ==
    reportData.kind = "dateRange" =>
        Range(FetchedRecords) =
            { tx \in Range(transactions) :
                 /\ tx.userId = UserA
                 /\ NamedDay(req.body.fromDate.s) <= LocalTime(tx.date, tz).day
                 /\ LocalTime(tx.date, tz).day <= NamedDay(req.body.toDate.s) }

\* C10: percentageUsed is the string "0" when monthlyBudget is 0 and otherwise
\* the two-decimal string of totalSpent / monthlyBudget * 100.
C10_PercentageUsed ==
    reportData.kind = "budget" =>
        /\ reportData.percentageUsed.t = "string"
        /\ reportData.monthlyBudget = 0 => reportData.percentageUsed = Str(<<"0">>)
        /\ (reportData.monthlyBudget = 1000 /\ reportData.totalSpent = 1500) =>
              reportData.percentageUsed = Str(<<"1", "5", "0", ".", "0", "0">>)

RecoveryPlan == "Overspending Recovery Plan"

\* C4: a Budget report is exceeded exactly when totalSpent is above
\* monthlyBudget, and the document of every format has the recovery-plan
\* section exactly when the report is exceeded.
C4_RecoveryPlanIffExceeded ==
    (pc = "done" /\ req.route = "budget" /\ res.complete) =>
        /\ reportData.exceeded = (reportData.totalSpent > reportData.monthlyBudget)
        /\ (RecoveryPlan \in Range(res.sections)) = reportData.exceeded

UnknownFormat(body) ==
    Truthy(body.format) /\ body.format \notin {Str(sPdf), Str(sExcel), Str(sCsv)}

\* C7: a request with a required parameter missing or with an unknown format
\* is answered 400 with no aggregation query issued and no generator called.
C7_RejectedBeforeAggregation ==
    (pc = "done" /\ (MissingFields(req.route, req.body) \/ UnknownFormat(req.body))) =>
        /\ res.statusCode = 400
        /\ queries = <<>>
        /\ rendered = <<>>
        /\ reportData = NoReport

\* C8: every finished request carries either a complete document or an error
\* response that has no download header and no document stream attached.
C8_CompleteOrCleanError ==
    pc = "done" =>
        IF res.statusCode = 200
        THEN res.body = "document" /\ res.complete
        ELSE /\ res.statusCode \in {400, 500}
             /\ res.body = "json"
             /\ ~res.disposition
             /\ ~res.piped
             /\ res.sections = <<>>

QueryFailed == queries # <<>> /\ ~queries[Len(queries)].ok

\* C9: when an aggregation query fails, no report is built, no generator is
\* called, no query is issued again, and the answer is 500 'Error generating
\* report', which no 400 answer carries.
C9_QueryFailure ==
    /\ (pc = "done" /\ QueryFailed) =>
          /\ res.statusCode = 500
          /\ res.message = "Error generating report"
          /\ res.body = "json"
          /\ ~res.disposition
          /\ res.sections = <<>>
          /\ reportData = NoReport
          /\ rendered = <<>>
          /\ \A i \in 1..Len(queries) : queries[i].name = QueryPlan(req.route)[i]
          /\ \A i \in 1..(Len(queries) - 1) : queries[i].ok
    /\ (pc = "done" /\ res.statusCode = 400) => res.message # "Error generating report"

C9_Witness ==
    /\ pc = "done"
    /\ req.route = "budget"
    /\ Len(queries) = 2
    /\ queries[1].ok
    /\ ~queries[2].ok
    /\ res.statusCode = 500

RendersZero(number) == ToStr(number) = <<"0">>

\* C11: in the document of every format and report type, a percentage whose
\* base is 0 is written as 0.
C11_ZeroBasePercentIsZero ==
    (pc = "done" /\ res.complete) =>
        \A i \in 1..Len(res.percents) :
            res.percents[i].base = 0 => RendersZero(res.percents[i].number)

HasTransactionCount == reportData.kind \in {"monthly", "dateRange", "fullAccount"}

MatchesKeyword(tx) == TestIncome(tx.type) \/ TestExpense(tx.type)

\* C12: in every report each fetched record adds its amount to at most one of
\* totalIncome and totalExpense, a record matching a keyword to the total of a
\* keyword it matches and a record matching neither to none, and
\* transactionCount counts every record of the raw list.
C12_OneTotalPerRecord ==
    reportData.kind # "none" =>
        /\ reportData.totalIncome + reportData.totalExpense
              = SumAmounts(SelectSeq(FetchedRecords, MatchesKeyword))
        /\ reportData.totalIncome
              <= SumAmounts(SelectSeq(FetchedRecords, LAMBDA tx : TestIncome(tx.type)))
        /\ reportData.totalExpense
              <= SumAmounts(SelectSeq(FetchedRecords, LAMBDA tx : TestExpense(tx.type)))
        /\ HasTransactionCount => reportData.transactionCount = Len(FetchedRecords)

ValidFormat(body) == body.format \in {Str(sPdf), Str(sExcel), Str(sCsv)}

\* C13: a request with its required fields, a valid format and no failed query
\* has exactly one generator called, the one of its format, and the response
\* carries the content type and the file extension of that format.
C13_OneRendererMatchingFormat ==
    (/\ pc = "done"
     /\ ~MissingFields(req.route, req.body)
     /\ ValidFormat(req.body)
     /\ ~QueryFailed) =>
        /\ req.body.format = Str(sPdf) =>
              /\ rendered = <<"generatePDF">>
              /\ res.contentType = "application/pdf"
              /\ res.fileExt = "pdf"
        /\ req.body.format = Str(sExcel) =>
              /\ rendered = <<"generateExcel">>
              /\ res.contentType
                    = "application/vnd.openxmlformats-officedocument.spreadsheetml.sheet"
              /\ res.fileExt = "xlsx"
        /\ req.body.format = Str(sCsv) =>
              /\ rendered = <<"generateCSV">>
              /\ res.contentType = "text/csv"
              /\ res.fileExt = "csv"

\* C14: on no page of the PDF is a table's header row the last thing drawn of
\* that table: a data row follows every header row on the same page.
C14_NoHeaderRowAlone ==
    \A p \in 1..Len(pdf.pages) :
        \A i \in 1..Len(pdf.pages[p]) :
            pdf.pages[p][i] = "head" =>
                i < Len(pdf.pages[p]) /\ pdf.pages[p][i + 1] = "row"

\* C15: every page of a finished PDF carries the footer.
C15_FooterOnEveryPage ==
    pdf.ended =>
        \A p \in 1..Len(pdf.pages) : "footer" \in Range(pdf.pages[p])

\* C16: the document of a FullAccount report with no reminders and no budgets
\* has neither the reminders section nor the budgets section, in every format.
C16_EmptySectionsOmitted ==
    (/\ pc = "done"
     /\ res.complete
     /\ reportData.kind = "fullAccount"
     /\ reportData.reminders = <<>>
     /\ reportData.budgets = <<>>) =>
        /\ "Bill Reminders" \notin Range(res.sections)
        /\ "Budget Details" \notin Range(res.sections)

C16_Witness ==
    /\ pc = "done"
    /\ res.complete
    /\ req.body.format = Str(sPdf)
    /\ reportData.kind = "fullAccount"
    /\ reportData.reminders = <<>>
    /\ reportData.budgets = <<>>
    /\ reportData.accounts # <<>>
    /\ "Account Details" \in Range(res.sections)

\* The conditional section a title opens, whatever the generator calls it.
SectionKind(title) ==
    CASE title = "Overspending Recovery Plan" -> "recovery plan"
      [] title \in {"Category-wise Expense Analysis", "Category-wise Expense Breakdown",
                    "Category-wise Expense Summary", "Category-wise Summary",
                    "Category-wise Expenses"} -> "categories"
      [] title = "Account Details" -> "accounts"
      [] title = "Bill Reminders" -> "reminders"
      [] title = "Budget Details" -> "budgets"
      [] title \in {"Transaction Details", "All Transactions", "Transaction History"}
            -> "transactions"
      [] OTHER -> "fixed"

ConditionalSections(sections) ==
    { SectionKind(sections[i]) : i \in 1..Len(sections) } \ {"fixed"}

BuiltType ==
    CASE reportData.kind = "monthly" -> "monthly"
      [] reportData.kind = "dateRange" -> "dateRange"
      [] reportData.kind = "budget" -> "budget"
      [] OTHER -> "fullAccount"

\* C17: for every report built, the worksheet and the CSV have a conditional
\* section exactly when the PDF has it.
C17_SameConditionalSections ==
    (pc = "done" /\ reportData.kind # "none") =>
        LET inPdf == ConditionalSections(generatePDF(BuiltType, reportData).sections)
        IN  /\ ConditionalSections(generateExcel(BuiltType, reportData).sections) = inPdf
            /\ ConditionalSections(generateCSV(BuiltType, reportData).sections) = inPdf

\* C18: for every report built, the PDF's cards, the worksheet's first section
\* and the CSV's first section hold the same set of (label, value) pairs.
C18_SameSummaryPairs ==
    (pc = "done" /\ reportData.kind # "none") =>
        /\ ExcelSummary(BuiltType, reportData) = PDFSummary(BuiltType, reportData)
        /\ CSVSummary(BuiltType, reportData) = PDFSummary(BuiltType, reportData)

UserTotal(coll, userId) == SumBalances(FindByUser(coll, userId))

\* C19: once every transfer has been answered, the sum of each user's balances
\* is what it was before the transfers.
C19_TransferConservesSum ==
    Quiet => \A u \in TransferUsers :
                UserTotal(accounts, u) = UserTotal(TransferAccounts, u)

\* C20: no account's balance is ever negative.
C20_NoNegativeBalance == \A i \in 1..Len(accounts) : accounts[i].balance >= 0

IsTransferRecord(tx) == tx.type = Str(sTransfer)

\* C21: a transfer answered with an error has saved no balance and recorded no
\* transfer; one answered with success records exactly one transfer in the
\* step that answers it, after both of its saves.
C21_TransferAllOrNothing ==
    [][\A c \in Clients :
          (Busy(c) /\ ~Busy(c)') =>
              IF inflight.at[c]'.statusCode = 200
              THEN /\ inflight.at[c].pc = "create"
                   /\ Len(transactions') = Len(transactions) + 1
                   /\ IsTransferRecord(transactions'[Len(transactions')])
              ELSE /\ inflight.at[c].pc \notin {"saveTo", "create"}
                   /\ transactions' = transactions]_vars

\* C22: a request that arrives with the token of a session already removed
\* gets no further than the middleware's lookup, and its answer is 401.
C22_RemovedSessionRejected ==
    [][\A c \in Clients :
          /\ (Busy(c)' /\ inflight.at[c]'.stale) => inflight.at[c]'.pc = "authFind"
          /\ (Busy(c) /\ inflight.at[c].stale /\ ~Busy(c)') =>
                inflight.at[c]'.statusCode = 401]_vars

C22_Witness ==
    \E c \in Clients :
        /\ Busy(c)
        /\ inflight.at[c].stale
        /\ inflight.at[c].token \in inflight.tokens
        /\ \E d \in Clients : inflight.at[d] = Answered(200)

\* C23: once every request has been answered, the Session collection and the
\* user's embedded array name the same sessions.
C23_SessionStoresAgree ==
    Quiet => \A u \in DOMAIN users : SessionIds(sessions, u) = Range(users[u].sessions)

\* C24: a user's password differs from the one they registered only if a
\* verification of that username's security answer has succeeded.
C24_ResetNeedsVerification ==
    \A u \in DOMAIN users :
        users[u].password # ResetUsers[u].password => u \in inflight.verified

\* C25: no two notifications of one user have the same title and body.
C25_OneNotificationPerTitleBody ==
    \A i, j \in 1..Len(notifications) :
        (/\ i # j
         /\ notifications[i].userId = notifications[j].userId
         /\ notifications[i].title = notifications[j].title)
            => notifications[i].body # notifications[j].body

\* C26: a step that changes a stored transaction is taken no later than 12
\* hours after the transaction was recorded.
C26_EditOnlyWithinWindow ==
    [][\A id \in DocIds :
          (/\ HasId(transactions, id)
           /\ HasId(transactions', id)
           /\ ById(transactions', id) # ById(transactions, id))
              => ~EditExpired(now, ById(transactions, id).createdAt)]_vars

\* C27: whatever user A sends, the transactions and accounts of user B stay
\* as they were, and no transaction has another owner than at the start.
C27_OtherUsersDataUntouched ==
    /\ \A i \in 1..Len(EditTransactions) :
          EditTransactions[i].userId = UserB =>
              /\ HasId(transactions, EditTransactions[i].id)
              /\ ById(transactions, EditTransactions[i].id) = EditTransactions[i]
    /\ \A i \in 1..Len(EditAccounts) :
          EditAccounts[i].userId = UserB =>
              /\ HasId(accounts, EditAccounts[i].id)
              /\ ById(accounts, EditAccounts[i].id) = EditAccounts[i]
    /\ \A i \in 1..Len(transactions) :
          transactions[i].userId = ById(EditTransactions, transactions[i].id).userId

\* C28: on the date-range PDF the subtext "N income, M expenses" of the
\* transaction count card has N = the records the aggregator counts as income
\* and M = the records it counts as expense.
C28_SubtextMatchesAggregator ==
    reportData.kind = "dateRange" =>
        LET txs == reportData.transactions
        IN  /\ Subtext(reportData).income = Len(SelectSeq(txs, LAMBDA t : TestIncome(t.type)))
            /\ Subtext(reportData).expenses =
                  Len(SelectSeq(txs, LAMBDA t : ~TestIncome(t.type) /\ TestExpense(t.type)))

\* C29: in each format of the FullAccount report every listed reminder stands
\* under the name it was created with, and at most the first 10 reminders of
\* the user are listed.
C29_RemindersUnderTheirName ==
    rendered # <<>> =>
        /\ Len(rendered.rows) <= 10
        /\ \A i \in 1..Len(rendered.rows) :
              rendered.rows[i].label = reportData.reminders[i].name

\* The summed amount of the grouped records of one category.
CategorySum(key) ==
    SumAmounts(SelectSeq(GroupedRecords, LAMBDA tx : ToStr(tx.category) = key))

\* C30: the categoryWiseSummary of the FullAccount report holds exactly
\* min(10, number of expense categories) categories, none with a smaller sum
\* than a category left out, each mapped to the full sum of its expense
\* records, and iterates in descending order of amount.
C30_TopTenCategories ==
    reportData.kind = "fullAccount" =>
        LET es == ObjectEntries(reportData.categoryWiseSummary)
            kept == { es[i].k : i \in 1..Len(es) }
            n == Cardinality(DistinctCategories)
        IN  /\ Len(es) = (IF n < 10 THEN n ELSE 10)
            /\ Cardinality(kept) = Len(es)
            /\ kept \subseteq DistinctCategories
            /\ \A k \in kept : GetProp(reportData.categoryWiseSummary, k) = CategorySum(k)
            /\ \A k \in kept, o \in DistinctCategories \ kept : CategorySum(k) >= CategorySum(o)
            /\ \A i, j \in 1..Len(es) : i < j => es[i].v >= es[j].v

====
